---- MODULE Spec2Model ----
(***************************************************************************)
(* ELLM: prime-encoded knowledge engine (PrimeCalculator, ConceptEncoder,  *)
(* KnowledgeBase, ReasoningEngine).  Strings are TLA+ strings, built with  *)
(* \o exactly as the template literals of the source build them.           *)
(***************************************************************************)
EXTENDS Integers, Sequences, FiniteSets, TLC

VARIABLES
    conceptToPrime,        \* ConceptEncoder.conceptToPrime  (Map concept -> prime)
    primeToConceptCache,   \* ConceptEncoder.primeToConceptCache (Map prime -> concept)
    nextPrimeIndex,        \* ConceptEncoder.nextPrimeIndex
    primeCache,            \* PrimeCalculator.primeCache (keys memoized as prime)
    facts,                 \* KnowledgeBase.facts
    factEncodings,         \* KnowledgeBase.factEncodings
    rules,                 \* KnowledgeBase.rules
    visited,               \* ReasoningEngine.visited
    last,                  \* what the last completed call returned to its caller
    stack,                 \* per invocation of deduce: its _deduce frames
    ret,                   \* per invocation: what the last _deduce returned
    outcome,               \* per invocation: what deduce returned
    expanded               \* per invocation: the goal keys it added to visited

callVars == <<stack, ret, outcome, expanded>>

vars == <<conceptToPrime, primeToConceptCache, nextPrimeIndex, primeCache,
          facts, factEncodings, rules, visited, last, callVars>>

(***************************************************************************)
(* PrimeCalculator                                                         *)
(***************************************************************************)
MaxSize == 1000

RECURSIVE sieveFrom(_, _, _)
\* the outer loop of the sieve: composites is the set of i with sieve[i] = false
sieveFrom(composites, i, max) ==
    IF i * i > max THEN composites
    ELSE sieveFrom(IF i \in composites THEN composites
                   ELSE composites \cup {j \in (i * i)..max : j % i = 0},
                   i + 1, max)

generatePrimes(max) ==
    LET composites == sieveFrom({0, 1}, 2, max)
    IN  SelectSeq([k \in 1..(max + 1) |-> k - 1], LAMBDA i : i \notin composites)

\* this.primes: set once by the constructor, never written again
primes == generatePrimes(MaxSize)

\* evaluates x once and hands its value to F.  (TLC evaluates a LET
\* definition again at every use when it measures coverage; a value bound
\* by a set constructor is evaluated once.)  Bind(x, LAMBDA v : e) is
\* LET v == x IN e.
Bind(x, F(_)) == CHOOSE r \in {F(v) : v \in {x}} : TRUE

RECURSIVE isPrimeLoop(_, _)
isPrimeLoop(n, i) ==
    IF i * i > n THEN TRUE
    ELSE IF n % i = 0 \/ n % (i + 2) = 0 THEN FALSE
    ELSE isPrimeLoop(n, i + 6)

\* returns the verdict and the memo table after the call
isPrime(cache, n) ==
    IF n \in cache THEN [value |-> TRUE, cache |-> cache]
    ELSE IF n <= 1 THEN [value |-> FALSE, cache |-> cache]
    ELSE IF n <= 3 THEN [value |-> TRUE, cache |-> cache]
    ELSE IF n % 2 = 0 \/ n % 3 = 0 THEN [value |-> FALSE, cache |-> cache]
    ELSE IF isPrimeLoop(n, 5) THEN [value |-> TRUE, cache |-> cache \cup {n}]
    ELSE [value |-> FALSE, cache |-> cache]

RECURSIVE generateNextPrimeFrom(_, _)
generateNextPrimeFrom(cache, candidate) ==
    Bind(isPrime(cache, candidate), LAMBDA t :
        IF t.value THEN [value |-> candidate, cache |-> t.cache]
        ELSE generateNextPrimeFrom(t.cache, candidate + 1))

generateNextPrime(cache, after) == generateNextPrimeFrom(cache, after + 1)

\* this.primes[n] || this.generateNextPrime(last prime); n is 0-indexed
getNthPrime(cache, n) ==
    IF n + 1 \in DOMAIN primes /\ primes[n + 1] # 0
    THEN [value |-> primes[n + 1], cache |-> cache]
    ELSE generateNextPrime(cache, primes[Len(primes)])

RECURSIVE divideOut(_, _, _)
\* while (remaining % p === 0) { factors.push(p); remaining /= p; }
divideOut(factors, remaining, p) ==
    IF remaining % p = 0
    THEN divideOut(Append(factors, p), remaining \div p, p)
    ELSE [factors |-> factors, remaining |-> remaining]

\* the first index from k on whose prime divides remaining or ends the
\* loop (p * p > remaining); the primes before it leave factors and
\* remaining as they are.  Len(primes) + 1 when there is none.
nextDivisor(remaining, k) ==
    CHOOSE j \in k..(Len(primes) + 1) :
        /\ \/ j = Len(primes) + 1
           \/ remaining % primes[j] = 0
           \/ primes[j] * primes[j] > remaining
        /\ \A i \in k..(j - 1) :
              remaining % primes[i] # 0 /\ primes[i] * primes[i] <= remaining

RECURSIVE factorizeFrom(_, _, _)
\* the for-loop over this.primes, from index k on
factorizeFrom(factors, remaining, k) ==
    Bind(nextDivisor(remaining, k), LAMBDA j :
        IF j > Len(primes) THEN [factors |-> factors, remaining |-> remaining]
        ELSE Bind(divideOut(factors, remaining, primes[j]), LAMBDA d :
                 IF primes[j] * primes[j] > d.remaining \/ d.remaining = 1 THEN d
                 ELSE factorizeFrom(d.factors, d.remaining, j + 1)))

factorize(n) ==
    Bind(factorizeFrom(<<>>, n, 1), LAMBDA d :
        IF d.remaining > 1 THEN Append(d.factors, d.remaining) ELSE d.factors)

(***************************************************************************)
(* Fact and Rule                                                           *)
(***************************************************************************)
\* String.prototype.toLowerCase on the strings the model uses: the words
\* written with a capital are folded, every other word is already lower case
toLowerCase(s) ==
    CASE s = "Socrates" -> "socrates"
      [] s = "Human"    -> "human"
      [] s = "IS"       -> "is"
      [] OTHER          -> s

Fact(subject, predicate, object) ==
    [subject   |-> toLowerCase(subject),
     predicate |-> toLowerCase(predicate),
     object    |-> toLowerCase(object)]

\* Fact.toString
toString(fact) == fact.subject \o " " \o fact.predicate \o " " \o fact.object

\* new Rule(conditions, conclusion): conditions is a sequence of Facts
Rule(conditions, conclusion) ==
    [type |-> "standard", conditions |-> conditions, conclusion |-> conclusion]

createUniversalRule(category, property) ==
    [type |-> "universal",
     conditions |-> <<Fact("_x_", "is", category)>>,
     conclusion |-> Fact("_x_", "is", property),
     category |-> category, property |-> property]

createCapabilityRule(category, capability) ==
    [type |-> "capability",
     conditions |-> <<Fact("_x_", "is", category)>>,
     conclusion |-> Fact("_x_", "can", capability),
     category |-> category, capability |-> capability]

(***************************************************************************)
(* ConceptEncoder.  An encoder value e bundles the four encoder fields;    *)
(* every operation returns its value together with the encoder after it.   *)
(***************************************************************************)
Encoder == [conceptToPrime      |-> conceptToPrime,
            primeToConceptCache |-> primeToConceptCache,
            nextPrimeIndex      |-> nextPrimeIndex,
            primeCache          |-> primeCache]

\* Map.set(k, v)
MapSet(m, k, v) == [x \in DOMAIN m \cup {k} |-> IF x = k THEN v ELSE m[x]]

EmptyMap == [x \in {} |-> 0]

getPrime(e, concept) ==
    LET normalizedConcept == toLowerCase(concept)
    IN  IF normalizedConcept \in DOMAIN e.conceptToPrime
        THEN [value |-> e.conceptToPrime[normalizedConcept], enc |-> e]
        ELSE Bind(getNthPrime(e.primeCache, e.nextPrimeIndex), LAMBDA t :
                 [value |-> t.value,
                  enc   |-> [conceptToPrime |->
                                 MapSet(e.conceptToPrime, normalizedConcept, t.value),
                             primeToConceptCache |->
                                 MapSet(e.primeToConceptCache, t.value, normalizedConcept),
                             nextPrimeIndex |-> e.nextPrimeIndex + 1,
                             primeCache     |-> t.cache]])

\* the encoder a constructor leaves: "_variable_" holds the first prime
NewEncoder ==
    getPrime([conceptToPrime |-> EmptyMap, primeToConceptCache |-> EmptyMap,
              nextPrimeIndex |-> 0, primeCache |-> {}], "_variable_").enc

variablePrime == getPrime(NewEncoder, "_variable_").value

getConceptName(e, prime) ==
    IF prime \in DOMAIN e.primeToConceptCache /\ e.primeToConceptCache[prime] # ""
    THEN e.primeToConceptCache[prime]
    ELSE "Unknown(" \o ToString(prime) \o ")"

encodeFact(e, fact) ==
    Bind(getPrime(e, fact.subject), LAMBDA s :
    Bind(getPrime(s.enc, fact.predicate), LAMBDA p :
    Bind(getPrime(p.enc, fact.object), LAMBDA o :
        [value |-> s.value * p.value * o.value, enc |-> o.enc])))

RECURSIVE encodeAll(_, _, _, _)
\* rule.conditions.map(cond => this.encodeFact(cond)), left to right
encodeAll(e, conds, k, acc) ==
    IF k > Len(conds) THEN [value |-> acc, enc |-> e]
    ELSE Bind(encodeFact(e, conds[k]), LAMBDA t :
             encodeAll(t.enc, conds, k + 1, Append(acc, t.value)))

encodeRule(e, rule) ==
    IF rule.type = "universal" \/ rule.type = "capability"
    THEN Bind(getPrime(e, rule.category), LAMBDA cat :
         Bind(IF rule.type = "universal"
              THEN getPrime(cat.enc, rule.property)
              ELSE getPrime(cat.enc, rule.capability), LAMBDA prop :
         Bind(IF rule.type = "universal"
              THEN getPrime(prop.enc, "is")
              ELSE getPrime(prop.enc, "can"), LAMBDA pred :
         Bind(encodeFact(pred.enc, rule.conditions[1]), LAMBDA cond :
         Bind(encodeFact(cond.enc, rule.conclusion), LAMBDA concl :
             [value |-> [type |-> rule.type,
                         variablePrime |-> variablePrime,
                         categoryPrime |-> cat.value,
                         propertyPrime |-> prop.value,
                         predicatePrime |-> pred.value,
                         conditionEncoding |-> cond.value,
                         conclusionEncoding |-> concl.value],
              enc |-> concl.enc])))))
    ELSE Bind(encodeAll(e, rule.conditions, 1, <<>>), LAMBDA conds :
         Bind(encodeFact(conds.enc, rule.conclusion), LAMBDA concl :
             [value |-> [type |-> "standard",
                         conditionEncodings |-> conds.value,
                         conclusionEncoding |-> concl.value],
              enc |-> concl.enc]))

\* null is the empty sequence, a decoded Fact f is <<f>>
decodeFact(e, encoding) ==
    Bind(factorize(encoding), LAMBDA factors :
        IF Len(factors) = 3
        THEN <<Fact(getConceptName(e, factors[1]),
                    getConceptName(e, factors[2]),
                    getConceptName(e, factors[3]))>>
        ELSE <<>>)

(***************************************************************************)
(* KnowledgeBase                                                           *)
(***************************************************************************)
KB == [facts |-> facts, factEncodings |-> factEncodings, rules |-> rules]

\* Array.prototype.includes
includes(seq, x) == \E i \in DOMAIN seq : seq[i] = x

RECURSIVE join(_, _)
\* Array.prototype.join
join(seq, sep) ==
    IF Len(seq) = 0 THEN ""
    ELSE IF Len(seq) = 1 THEN seq[1]
    ELSE seq[1] \o sep \o join(Tail(seq), sep)

(***************************************************************************)
(* ReasoningEngine.  _deduce reads and writes this.visited and the encoder *)
(* (encodeFact registers the concepts of every goal), so both are threaded *)
(* through: each operator takes the encoder e and the visited set vis as   *)
(* they are when the code reaches that point and returns them as they are  *)
(* when it leaves.                                                         *)
(***************************************************************************)
Outcome(result, explanation, e, vis) ==
    [result |-> result, explanation |-> explanation, enc |-> e, visited |-> vis]

\* the condition of the if at the head of the universal/capability branch
ruleMatches(e, rule, queryFact) ==
    /\ rule.type = "universal" \/ rule.type = "capability"
    /\ queryFact.predicate = getConceptName(e, rule.predicatePrime)
    /\ queryFact.object = getConceptName(e, rule.propertyPrime)

\* a slip: the membership goal is built from the rule's property
membershipFactOfProperty(e, rule, queryFact) ==
    Fact(queryFact.subject, "is", getConceptName(e, rule.propertyPrime))

membershipFact(e, rule, queryFact) ==
    Fact(queryFact.subject, "is", getConceptName(e, rule.categoryPrime))

\* a slip: the verb is "are" whatever the rule's type
ruleExplanationAlwaysAre(e, rule, subExplanation) ==
    subExplanation \o ", and all " \o getConceptName(e, rule.categoryPrime)
      \o " are " \o getConceptName(e, rule.propertyPrime)

ruleExplanation(e, rule, subExplanation) ==
    LET ruleType == IF rule.type = "universal" THEN "are" ELSE "can"
    IN  subExplanation \o ", and all " \o getConceptName(e, rule.categoryPrime)
          \o " " \o ruleType \o " " \o getConceptName(e, rule.propertyPrime)

\* a slip: the key is not recorded
visitedAddNothing(vis, queryKey) == vis

\* this.visited.add(queryKey)
visitedAdd(vis, queryKey) == vis \cup {queryKey}

RECURSIVE _deduce(_, _, _, _)
RECURSIVE universalRules(_, _, _, _, _, _)
RECURSIVE standardRules(_, _, _, _, _, _)
RECURSIVE conditions(_, _, _, _, _, _)
RECURSIVE transitiveFacts(_, _, _, _, _)

\* the loop of tryTransitiveReasoning over kb.facts, from index k on
transitiveFacts(kb, e, vis, queryFact, k) ==
    IF k > Len(kb.facts) THEN Outcome(FALSE, "", e, vis)
    ELSE IF /\ kb.facts[k].subject = queryFact.subject
            /\ kb.facts[k].predicate = queryFact.predicate
    THEN Bind(_deduce(kb, e, vis,
                      Fact(kb.facts[k].object, queryFact.predicate, queryFact.object)),
              LAMBDA result :
                  IF result.result
                  THEN Outcome(TRUE,
                               queryFact.subject \o " " \o queryFact.predicate \o " "
                                 \o kb.facts[k].object \o ", and " \o result.explanation,
                               result.enc, result.visited)
                  ELSE transitiveFacts(kb, result.enc, result.visited, queryFact, k + 1))
    ELSE transitiveFacts(kb, e, vis, queryFact, k + 1)

tryTransitiveReasoning(kb, e, vis, queryFact) ==
    transitiveFacts(kb, e, vis, queryFact, 1)

\* a slip: the transitive fallback is tried for "is" only
fallbackOnlyIs(kb, e, vis, queryFact) ==
    IF queryFact.predicate \in {"is"}
    THEN Bind(tryTransitiveReasoning(kb, e, vis, queryFact), LAMBDA transitiveResult :
             IF transitiveResult.result THEN transitiveResult
             ELSE Outcome(FALSE, "Could not deduce: " \o toString(queryFact),
                          transitiveResult.enc, transitiveResult.visited))
    ELSE Outcome(FALSE, "Could not deduce: " \o toString(queryFact), e, vis)

\* what follows the two rule loops: the transitive fallback, then exhaustion
fallback(kb, e, vis, queryFact) ==
    IF queryFact.predicate \in {"is", "part of"}
    THEN Bind(tryTransitiveReasoning(kb, e, vis, queryFact), LAMBDA transitiveResult :
             IF transitiveResult.result THEN transitiveResult
             ELSE Outcome(FALSE, "Could not deduce: " \o toString(queryFact),
                          transitiveResult.enc, transitiveResult.visited))
    ELSE Outcome(FALSE, "Could not deduce: " \o toString(queryFact), e, vis)

\* the loop over rule.conditionEncodings, from index k on; met is
\* allConditionsMet when the loop is left
conditions(kb, e, vis, conditionEncodings, k, explanations) ==
    IF k > Len(conditionEncodings)
    THEN [met |-> TRUE, explanations |-> explanations, enc |-> e, visited |-> vis]
    ELSE Bind(decodeFact(e, conditionEncodings[k]), LAMBDA conditionFact :
             IF conditionFact = <<>>
             THEN [met |-> FALSE, explanations |-> explanations,
                   enc |-> e, visited |-> vis]
             ELSE Bind(_deduce(kb, e, vis, conditionFact[1]), LAMBDA conditionResult :
                      IF ~conditionResult.result
                      THEN [met |-> FALSE, explanations |-> explanations,
                            enc |-> conditionResult.enc,
                            visited |-> conditionResult.visited]
                      ELSE conditions(kb, conditionResult.enc, conditionResult.visited,
                                      conditionEncodings, k + 1,
                                      Append(explanations, conditionResult.explanation))))

\* the second loop over kb.rules, from index k on
standardRules(kb, e, vis, queryFact, queryEncoding, k) ==
    IF k > Len(kb.rules) THEN fallback(kb, e, vis, queryFact)
    ELSE IF /\ kb.rules[k].type = "standard"
            /\ kb.rules[k].conclusionEncoding = queryEncoding
    THEN Bind(conditions(kb, e, vis, kb.rules[k].conditionEncodings, 1, <<>>), LAMBDA c :
             IF c.met
             THEN Outcome(TRUE,
                          join(c.explanations, ", ") \o ", which implies "
                            \o toString(queryFact),
                          c.enc, c.visited)
             ELSE standardRules(kb, c.enc, c.visited, queryFact, queryEncoding, k + 1))
    ELSE standardRules(kb, e, vis, queryFact, queryEncoding, k + 1)

\* the first loop over kb.rules, from index k on
universalRules(kb, e, vis, queryFact, queryEncoding, k) ==
    IF k > Len(kb.rules) THEN standardRules(kb, e, vis, queryFact, queryEncoding, 1)
    ELSE IF ruleMatches(e, kb.rules[k], queryFact)
    THEN Bind(_deduce(kb, e, vis, membershipFact(e, kb.rules[k], queryFact)),
              LAMBDA subResult :
                  IF subResult.result
                  THEN Outcome(TRUE,
                               ruleExplanation(subResult.enc, kb.rules[k],
                                               subResult.explanation),
                               subResult.enc, subResult.visited)
                  ELSE universalRules(kb, subResult.enc, subResult.visited,
                                      queryFact, queryEncoding, k + 1))
    ELSE universalRules(kb, e, vis, queryFact, queryEncoding, k + 1)

\* a slip: a goal met again counts as deduced
_deduceCycleSucceeds(kb, e, vis, queryFact) ==
    Bind(encodeFact(e, queryFact), LAMBDA q :
        IF toString(queryFact) \in vis
        THEN Outcome(TRUE, "Circular reasoning detected: " \o toString(queryFact),
                     q.enc, vis)
        ELSE IF includes(kb.factEncodings, q.value)
        THEN Outcome(TRUE, "Direct fact in knowledge base: " \o toString(queryFact),
                     q.enc, visitedAdd(vis, toString(queryFact)))
        ELSE universalRules(kb, q.enc, visitedAdd(vis, toString(queryFact)),
                            queryFact, q.value, 1))

_deduce(kb, e, vis, queryFact) ==
    Bind(encodeFact(e, queryFact), LAMBDA q :
        IF toString(queryFact) \in vis
        THEN Outcome(FALSE, "Circular reasoning detected: " \o toString(queryFact),
                     q.enc, vis)
        ELSE IF includes(kb.factEncodings, q.value)
        THEN Outcome(TRUE, "Direct fact in knowledge base: " \o toString(queryFact),
                     q.enc, visitedAdd(vis, toString(queryFact)))
        ELSE universalRules(kb, q.enc, visitedAdd(vis, toString(queryFact)),
                            queryFact, q.value, 1))

\* a slip: the visited set of the previous call is kept
deduceKeepsVisited(kb, e, queryFact) == _deduce(kb, e, visited, queryFact)

\* this.visited = new Set(); return this._deduce(kb, queryFact)
deduce(kb, e, queryFact) == _deduce(kb, e, {}, queryFact)

(***************************************************************************)
(* JavaScript strings.  A string is a TLA+ string; SubSeq(s, i, i) is its  *)
(* i-th character (1-indexed).  The texts of the model hold letters,       *)
(* spaces, line feeds and punctuation.                                     *)
(***************************************************************************)
UpperCase ==
    [c \in {"A", "B", "C", "D", "E", "F", "G", "H", "I", "J", "K", "L", "M",
            "N", "O", "P", "Q", "R", "S", "T", "U", "V", "W", "X", "Y", "Z"} |->
        CASE c = "A" -> "a" [] c = "B" -> "b" [] c = "C" -> "c" [] c = "D" -> "d"
          [] c = "E" -> "e" [] c = "F" -> "f" [] c = "G" -> "g" [] c = "H" -> "h"
          [] c = "I" -> "i" [] c = "J" -> "j" [] c = "K" -> "k" [] c = "L" -> "l"
          [] c = "M" -> "m" [] c = "N" -> "n" [] c = "O" -> "o" [] c = "P" -> "p"
          [] c = "Q" -> "q" [] c = "R" -> "r" [] c = "S" -> "s" [] c = "T" -> "t"
          [] c = "U" -> "u" [] c = "V" -> "v" [] c = "W" -> "w" [] c = "X" -> "x"
          [] c = "Y" -> "y" [] c = "Z" -> "z"]

charAt(s, i) == SubSeq(s, i, i)

RECURSIVE lowerCase(_)
\* String.prototype.toLowerCase, character by character
lowerCase(s) ==
    IF s = "" THEN ""
    ELSE (IF Head(s) \in DOMAIN UpperCase THEN UpperCase[Head(s)] ELSE Head(s))
             \o lowerCase(Tail(s))

\* the 1-indexed position of the first occurrence of pattern in s, 0 if none
indexOf(s, pattern) ==
    IF \E i \in 1..(Len(s) - Len(pattern) + 1) :
           SubSeq(s, i, i + Len(pattern) - 1) = pattern
    THEN CHOOSE i \in 1..(Len(s) - Len(pattern) + 1) :
             /\ SubSeq(s, i, i + Len(pattern) - 1) = pattern
             /\ \A j \in 1..(i - 1) : SubSeq(s, j, j + Len(pattern) - 1) # pattern
    ELSE 0

\* String.prototype.includes
includesText(s, pattern) == indexOf(s, pattern) # 0

\* String.prototype.startsWith
startsWith(s, pattern) ==
    Len(s) >= Len(pattern) /\ SubSeq(s, 1, Len(pattern)) = pattern

RECURSIVE split(_, _)
\* String.prototype.split with a string separator
split(s, separator) ==
    Bind(indexOf(s, separator), LAMBDA i :
        IF i = 0 THEN <<s>>
        ELSE <<SubSeq(s, 1, i - 1)>>
                 \o split(SubSeq(s, i + Len(separator), Len(s)), separator))

\* String.prototype.replace with a string pattern: the first occurrence
replace(s, pattern, replacement) ==
    Bind(indexOf(s, pattern), LAMBDA i :
        IF i = 0 THEN s
        ELSE SubSeq(s, 1, i - 1) \o replacement
                 \o SubSeq(s, i + Len(pattern), Len(s)))

\* the white space of the model's texts: the space and the line feed
WhiteSpace == {" ", "\n"}

\* String.prototype.trim
trim(s) ==
    IF \A i \in 1..Len(s) : charAt(s, i) \in WhiteSpace THEN ""
    ELSE SubSeq(s,
                CHOOSE i \in 1..Len(s) :
                    /\ charAt(s, i) \notin WhiteSpace
                    /\ \A j \in 1..(i - 1) : charAt(s, j) \in WhiteSpace,
                CHOOSE i \in 1..Len(s) :
                    /\ charAt(s, i) \notin WhiteSpace
                    /\ \A j \in (i + 1)..Len(s) : charAt(s, j) \in WhiteSpace)

\* s.replace(/[.?!,;]$/g, '')
dropFinalPunctuation(s) ==
    IF s # "" /\ charAt(s, Len(s)) \in {".", "?", "!", ",", ";"}
    THEN SubSeq(s, 1, Len(s) - 1)
    ELSE s

\* sentence.toLowerCase().replace(/[.?!,;]$/g, '').trim()
normalize(sentence) == trim(dropFinalPunctuation(lowerCase(sentence)))

RECURSIVE splitSentences(_)
\* text.split(/[.!?]\s*/)
splitSentences(text) ==
    IF \A i \in 1..Len(text) : charAt(text, i) \notin {".", "!", "?"} THEN <<text>>
    ELSE Bind(CHOOSE i \in 1..Len(text) :
                  /\ charAt(text, i) \in {".", "!", "?"}
                  /\ \A j \in 1..(i - 1) : charAt(text, j) \notin {".", "!", "?"},
              LAMBDA i :
                  Bind(CHOOSE j \in (i + 1)..(Len(text) + 1) :
                           /\ j = Len(text) + 1 \/ charAt(text, j) \notin WhiteSpace
                           /\ \A m \in (i + 1)..(j - 1) : charAt(text, m) \in WhiteSpace,
                       LAMBDA j :
                           <<SubSeq(text, 1, i - 1)>>
                               \o splitSentences(SubSeq(text, j, Len(text)))))

(***************************************************************************)
(* LanguageProcessor.  parseFact and parseRule return <<>> for null and    *)
(* <<x>> for the Fact or Rule x.                                           *)
(***************************************************************************)
\* the connective phrases of parseFact, in the order they are tried
FactTemplates ==
    << [phrase |-> " is ", predicate |-> "is"],
       [phrase |-> " has ", predicate |-> "has"],
       [phrase |-> " can ", predicate |-> "can"],
       [phrase |-> " cannot ", predicate |-> "cannot"],
       [phrase |-> " likes ", predicate |-> "likes"],
       [phrase |-> " teaches ", predicate |-> "teaches"],
       [phrase |-> " part of ", predicate |-> "part of"] >>

\* parts[i].trim(), and .replace('the ', '') for "part of"
factPart(part, predicate) ==
    IF predicate = "part of" THEN replace(trim(part), "the ", "") ELSE trim(part)

RECURSIVE parseFactFrom(_, _)
\* the if-blocks of parseFact, from the k-th on
parseFactFrom(text, k) ==
    IF k > Len(FactTemplates) THEN <<>>
    ELSE IF includesText(text, FactTemplates[k].phrase)
    THEN Bind(split(text, FactTemplates[k].phrase), LAMBDA parts :
             IF Len(parts) = 2
             THEN <<Fact(factPart(parts[1], FactTemplates[k].predicate),
                         FactTemplates[k].predicate,
                         factPart(parts[2], FactTemplates[k].predicate))>>
             ELSE parseFactFrom(text, k + 1))
    ELSE parseFactFrom(text, k + 1)

parseFact(sentence) == parseFactFrom(normalize(sentence), 1)

RECURSIVE parseConditions(_, _, _)
\* the loop over conditionParts: <<>> when a part fails to parse
parseConditions(conditionParts, k, parsed) ==
    IF k > Len(conditionParts) THEN parsed
    ELSE Bind(parseFact(conditionParts[k]), LAMBDA condition :
             IF condition = <<>> THEN <<>>
             ELSE parseConditions(conditionParts, k + 1,
                                  Append(parsed, condition[1])))

\* the IF-THEN block of parseRule
parseIfThen(text) ==
    Bind(IF includesText(text, ", then ")
         THEN split(replace(text, "if ", ""), ", then ")
         ELSE split(replace(text, "if ", ""), " then "),
         LAMBDA parts :
             IF Len(parts) # 2 THEN <<>>
             ELSE Bind(IF includesText(trim(parts[1]), " and ")
                       THEN parseConditions(split(trim(parts[1]), " and "), 1, <<>>)
                       ELSE parseConditions(<<trim(parts[1])>>, 1, <<>>),
                       LAMBDA conds :
                           IF conds = <<>> THEN <<>>
                           ELSE Bind(parseFact(trim(parts[2])), LAMBDA conclusion :
                                    IF conclusion = <<>> THEN <<>>
                                    ELSE <<Rule(conds, conclusion[1])>>)))

\* the "All X can Y" block of parseRule and what follows it
parseCapability(text) ==
    IF startsWith(text, "all ") /\ includesText(text, " can ")
          /\ Len(split(replace(text, "all ", ""), " can ")) = 2
    THEN Bind(split(replace(text, "all ", ""), " can "), LAMBDA parts :
             <<createCapabilityRule(trim(parts[1]), trim(parts[2]))>>)
    ELSE IF startsWith(text, "if ")
            /\ (includesText(text, " then ") \/ includesText(text, ", then "))
    THEN parseIfThen(text)
    ELSE <<>>

parseRuleText(text) ==
    IF startsWith(text, "all ") /\ includesText(text, " are ")
          /\ Len(split(replace(text, "all ", ""), " are ")) = 2
    THEN Bind(split(replace(text, "all ", ""), " are "), LAMBDA parts :
             <<createUniversalRule(trim(parts[1]), trim(parts[2]))>>)
    ELSE parseCapability(text)

parseRule(sentence) == parseRuleText(normalize(sentence))

\* Rule.toString
ruleToString(rule) ==
    IF rule.type = "universal"
    THEN "All " \o rule.category \o " are " \o rule.property
    ELSE IF rule.type = "capability"
    THEN "All " \o rule.category \o " can " \o rule.capability
    ELSE IF Len(rule.conditions) = 1
    THEN "IF (" \o toString(rule.conditions[1]) \o ") THEN ("
             \o toString(rule.conclusion) \o ")"
    ELSE "IF (" \o join([i \in DOMAIN rule.conditions |-> toString(rule.conditions[i])],
                        " AND ")
             \o ") THEN (" \o toString(rule.conclusion) \o ")"

\* String.prototype.substring(n): the string without its first n characters
substring(s, n) == SubSeq(s, n + 1, Len(s))

\* new Fact(words[0], predicate, words.slice(1).join(' ')) if words.length >= 2
wordsQuery(restOfQuery, predicate) ==
    Bind(split(restOfQuery, " "), LAMBDA words :
        IF Len(words) >= 2
        THEN <<Fact(words[1], predicate, join(Tail(words), " "))>>
        ELSE <<>>)

\* new Fact(subject, predicate, object) if the phrase splits the text in two;
\* trimmed says whether the two parts are trimmed
phraseQuery(text, phrase, predicate, trimmed) ==
    Bind(split(text, phrase), LAMBDA parts :
        IF Len(parts) = 2
        THEN IF trimmed
             THEN <<Fact(trim(parts[1]), predicate, trim(parts[2]))>>
             ELSE <<Fact(parts[1], predicate, parts[2])>>
        ELSE <<>>)

\* the "Is X Y?" block of parseQuery, on the text after "is "
parseIsQuery(restOfQuery) ==
    IF includesText(restOfQuery, " a ")
    THEN phraseQuery(restOfQuery, " a ", "is", TRUE)
    ELSE IF includesText(restOfQuery, " an ")
    THEN phraseQuery(restOfQuery, " an ", "is", TRUE)
    ELSE IF includesText(restOfQuery, " part of ")
    THEN phraseQuery(restOfQuery, " part of ", "part of", TRUE)
    ELSE wordsQuery(restOfQuery, "is")

\* the blocks of parseQuery in order: the first that returns a Fact wins
parseQueryText(text) ==
    Bind(IF startsWith(text, "is ") THEN parseIsQuery(trim(substring(text, 3)))
         ELSE <<>>, LAMBDA isQuery :
    IF isQuery # <<>> THEN isQuery ELSE
    Bind(IF startsWith(text, "are ") THEN wordsQuery(trim(substring(text, 4)), "is")
         ELSE <<>>, LAMBDA areQuery :
    IF areQuery # <<>> THEN areQuery ELSE
    Bind(IF startsWith(text, "does ") /\ includesText(text, " have ")
         THEN phraseQuery(trim(substring(text, 5)), " have ", "has", FALSE)
         ELSE <<>>, LAMBDA haveQuery :
    IF haveQuery # <<>> THEN haveQuery ELSE
    Bind(IF startsWith(text, "can ") THEN wordsQuery(trim(substring(text, 4)), "can")
         ELSE <<>>, LAMBDA canQuery :
    IF canQuery # <<>> THEN canQuery ELSE
    IF startsWith(text, "does ") /\ includesText(text, " like ")
    THEN phraseQuery(trim(substring(text, 5)), " like ", "likes", FALSE)
    ELSE <<>>))))

\* LanguageProcessor.parseQuery
parseQuery(question) == parseQueryText(normalize(question))

(***************************************************************************)
(* The session: an ELLM instance after its constructor, and the calls a    *)
(* caller makes on its knowledge base and its reasoner.  JavaScript runs   *)
(* each call to completion, so each call is one step.                      *)
(***************************************************************************)
NoCall == [op |-> "none"]

\* the invocations of deduce that may be in progress on the one engine
Invocations == {1, 2}

Init ==
    /\ conceptToPrime = NewEncoder.conceptToPrime
    /\ primeToConceptCache = NewEncoder.primeToConceptCache
    /\ nextPrimeIndex = NewEncoder.nextPrimeIndex
    /\ primeCache = NewEncoder.primeCache
    /\ facts = <<>>
    /\ factEncodings = <<>>
    /\ rules = <<>>
    /\ visited = {}
    /\ last = NoCall
    /\ stack = [i \in Invocations |-> <<>>]
    /\ ret = [i \in Invocations |-> NoCall]
    /\ outcome = [i \in Invocations |-> NoCall]
    /\ expanded = [i \in Invocations |-> <<>>]

SetEncoder(e) ==
    /\ conceptToPrime' = e.conceptToPrime
    /\ primeToConceptCache' = e.primeToConceptCache
    /\ nextPrimeIndex' = e.nextPrimeIndex
    /\ primeCache' = e.primeCache

\* a slip: a fact already stored is not stored again
addFactOnce(fact) ==
    \E encoding \in {encodeFact(Encoder, fact)} :
        /\ SetEncoder(encoding.enc)
        /\ IF includes(factEncodings, encoding.value)
           THEN UNCHANGED <<facts, factEncodings>>
           ELSE /\ factEncodings' = Append(factEncodings, encoding.value)
                /\ facts' = Append(facts, fact)
        /\ last' = [op |-> "addFact", fact |-> fact, returned |-> encoding.value]
        /\ UNCHANGED <<rules, visited, callVars>>

\* KnowledgeBase.addFact
addFact(fact) ==
    \E encoding \in {encodeFact(Encoder, fact)} :
        /\ SetEncoder(encoding.enc)
        /\ factEncodings' = Append(factEncodings, encoding.value)
        /\ facts' = Append(facts, fact)
        /\ last' = [op |-> "addFact", fact |-> fact, returned |-> encoding.value]
        /\ UNCHANGED <<rules, visited, callVars>>

\* KnowledgeBase.addRule
addRule(rule) ==
    \E encodedRule \in {encodeRule(Encoder, rule)} :
        /\ SetEncoder(encodedRule.enc)
        /\ rules' = Append(rules, encodedRule.value)
        /\ last' = [op |-> "addRule", rule |-> rule, returned |-> encodedRule.value]
        /\ UNCHANGED <<facts, factEncodings, visited, callVars>>

\* ReasoningEngine.deduce(kb, queryFact), run to completion
Deduce(queryFact) ==
    \E r \in {deduce(KB, Encoder, queryFact)} :
        /\ SetEncoder(r.enc)
        /\ visited' = r.visited
        /\ last' = [op |-> "deduce", query |-> queryFact,
                    result |-> r.result, explanation |-> r.explanation]
        /\ UNCHANGED <<facts, factEncodings, rules, callVars>>

\* a slip: the encoder survives the reset
resetKeepsEncoder ==
    /\ facts' = <<>>
    /\ factEncodings' = <<>>
    /\ rules' = <<>>
    /\ visited' = {}
    /\ last' = [op |-> "reset"]
    /\ UNCHANGED <<conceptToPrime, primeToConceptCache, nextPrimeIndex, primeCache,
                   callVars>>

\* ELLM.reset: a new encoder, language processor, knowledge base and reasoner
reset ==
    /\ SetEncoder(NewEncoder)
    /\ facts' = <<>>
    /\ factEncodings' = <<>>
    /\ rules' = <<>>
    /\ visited' = {}
    /\ last' = [op |-> "reset"]
    /\ UNCHANGED callVars

\* the encoder and the knowledge base as one value, for the calls of learn
Session ==
    [enc |-> Encoder, facts |-> facts, factEncodings |-> factEncodings,
     rules |-> rules]

\* this.kb.addFact(fact) on a session value
sessionAddFact(session, fact) ==
    Bind(encodeFact(session.enc, fact), LAMBDA encoding :
        [session EXCEPT !.enc = encoding.enc,
                        !.factEncodings = Append(@, encoding.value),
                        !.facts = Append(@, fact)])

\* this.kb.addRule(rule) on a session value
sessionAddRule(session, rule) ==
    Bind(encodeRule(session.enc, rule), LAMBDA encodedRule :
        [session EXCEPT !.enc = encodedRule.enc,
                        !.rules = Append(@, encodedRule.value)])

RECURSIVE learnFromFactFirst(_, _, _, _)
\* a slip: a sentence is tried as a fact before it is tried as a rule
learnFromFactFirst(session, sentences, k, learningResults) ==
    IF k > Len(sentences)
    THEN [session |-> session, learningResults |-> learningResults]
    ELSE IF trim(sentences[k]) = ""
    THEN learnFromFactFirst(session, sentences, k + 1, learningResults)
    ELSE Bind(parseFact(sentences[k]), LAMBDA fact :
             IF fact # <<>>
             THEN learnFromFactFirst(sessionAddFact(session, fact[1]), sentences,
                                     k + 1,
                                     Append(learningResults,
                                            "Added fact: " \o toString(fact[1])))
             ELSE Bind(parseRule(sentences[k]), LAMBDA rule :
                      IF rule # <<>>
                      THEN learnFromFactFirst(sessionAddRule(session, rule[1]),
                                              sentences, k + 1,
                                              Append(learningResults,
                                                     "Added rule: "
                                                         \o ruleToString(rule[1])))
                      ELSE learnFromFactFirst(session, sentences, k + 1,
                                              Append(learningResults,
                                                     "Failed to parse: \""
                                                         \o sentences[k] \o "\""))))

RECURSIVE learnFrom(_, _, _, _)
\* the loop of learn over sentences, from the k-th on
learnFrom(session, sentences, k, learningResults) ==
    IF k > Len(sentences)
    THEN [session |-> session, learningResults |-> learningResults]
    ELSE IF trim(sentences[k]) = ""
    THEN learnFrom(session, sentences, k + 1, learningResults)
    ELSE Bind(parseRule(sentences[k]), LAMBDA rule :
             IF rule # <<>>
             THEN learnFrom(sessionAddRule(session, rule[1]), sentences, k + 1,
                            Append(learningResults,
                                   "Added rule: " \o ruleToString(rule[1])))
             ELSE Bind(parseFact(sentences[k]), LAMBDA fact :
                      IF fact # <<>>
                      THEN learnFrom(sessionAddFact(session, fact[1]), sentences, k + 1,
                                     Append(learningResults,
                                            "Added fact: " \o toString(fact[1])))
                      ELSE learnFrom(session, sentences, k + 1,
                                     Append(learningResults,
                                            "Failed to parse: \"" \o sentences[k]
                                                \o "\""))))

\* ELLM.learn
learn(text) ==
    \E r \in {learnFrom(Session,
                        SelectSeq(splitSentences(text), LAMBDA x : Len(trim(x)) > 0),
                        1, <<>>)} :
        /\ SetEncoder(r.session.enc)
        /\ facts' = r.session.facts
        /\ factEncodings' = r.session.factEncodings
        /\ rules' = r.session.rules
        /\ last' = [op |-> "learn", text |-> text, returned |-> r.learningResults]
        /\ UNCHANGED <<visited, callVars>>

\* `${x}` for a decoded fact x: null prints as "null"
templateText(decoded) == IF decoded = <<>> THEN "null" ELSE toString(decoded[1])

\* an element of Array.prototype.join: null prints as the empty string
joinText(decoded) == IF decoded = <<>> THEN "" ELSE toString(decoded[1])

\* rule.conditionEncodings.map(enc => this.encoder.decodeFact(enc))
decodeConditions(e, rule) ==
    [i \in DOMAIN rule.conditionEncodings |->
        decodeFact(e, rule.conditionEncodings[i])]

\* ELLM.describeRule
describeRule(e, rule) ==
    IF rule.type = "universal"
    THEN "All " \o getConceptName(e, rule.categoryPrime) \o " are "
             \o getConceptName(e, rule.propertyPrime)
    ELSE IF rule.type = "capability"
    THEN "All " \o getConceptName(e, rule.categoryPrime) \o " can "
             \o getConceptName(e, rule.propertyPrime)
    ELSE IF rule.type = "standard"
    THEN Bind(SelectSeq(decodeConditions(e, rule), LAMBDA d : d # <<>>), LAMBDA kept :
         Bind(decodeFact(e, rule.conclusionEncoding), LAMBDA conclusion :
             IF Len(kept) # 0 /\ conclusion # <<>>
             THEN IF Len(kept) = 1
                  THEN "IF (" \o toString(kept[1][1]) \o ") THEN ("
                           \o toString(conclusion[1]) \o ")"
                  ELSE "IF (" \o join([i \in DOMAIN kept |-> toString(kept[i][1])],
                                      " AND ")
                           \o ") THEN (" \o toString(conclusion[1]) \o ")"
             ELSE "[Unrecognized rule]"))
    ELSE "[Unrecognized rule]"

\* the line printKnowledgeBase logs for a rule; decodeFact returns null and
\* does not throw, so the catch block is never entered
printRule(e, rule) ==
    IF rule.type = "universal"
    THEN "- All " \o getConceptName(e, rule.categoryPrime) \o " are "
             \o getConceptName(e, rule.propertyPrime)
    ELSE IF rule.type = "capability"
    THEN "- All " \o getConceptName(e, rule.categoryPrime) \o " can "
             \o getConceptName(e, rule.propertyPrime)
    ELSE Bind(decodeConditions(e, rule), LAMBDA conds :
         Bind(decodeFact(e, rule.conclusionEncoding), LAMBDA conclusion :
             IF Len(conds) = 1
             THEN "- IF (" \o templateText(conds[1]) \o ") THEN ("
                      \o templateText(conclusion) \o ")"
             ELSE "- IF (" \o join([i \in DOMAIN conds |-> joinText(conds[i])],
                                   " AND ")
                      \o ") THEN (" \o templateText(conclusion) \o ")"))

\* ELLM.getKnowledgeSummary
getKnowledgeSummary ==
    /\ last' = [op |-> "getKnowledgeSummary",
                returned |-> [facts |-> [i \in DOMAIN facts |-> toString(facts[i])],
                              rules |-> [i \in DOMAIN rules |->
                                            describeRule(Encoder, rules[i])]]]
    /\ UNCHANGED <<conceptToPrime, primeToConceptCache, nextPrimeIndex, primeCache,
                   facts, factEncodings, rules, visited, callVars>>

\* KnowledgeBase.printKnowledgeBase: the lines it logs
printKnowledgeBase ==
    /\ last' = [op |-> "printKnowledgeBase",
                logged |-> <<"Knowledge Base Contents:", "Facts:">>
                               \o [i \in DOMAIN facts |-> "- " \o toString(facts[i])]
                               \o <<"Rules:">>
                               \o [i \in DOMAIN rules |-> printRule(Encoder, rules[i])]]
    /\ UNCHANGED <<conceptToPrime, primeToConceptCache, nextPrimeIndex, primeCache,
                   facts, factEncodings, rules, visited, callVars>>

(***************************************************************************)
(* The page (main.js): one ELLM instance and the elements the handlers     *)
(* read and write.  A world is the session, the reasoner's visited set and *)
(* the page; a handler maps the world before the event to the world after  *)
(* it.  While a page is shown, last holds it.                              *)
(***************************************************************************)
\* const sampleKnowledge, after .trim()
sampleKnowledge ==
    "All humans are mortal.\nSocrates is human.\nAll birds can fly.\n"
      \o "Penguins are birds.\nPenguins cannot fly.\n"
      \o "The engine is part of the car.\n"
      \o "The car is part of the transportation system.\n"
      \o "Alice likes mathematics.\nBob teaches mathematics.\n"
      \o "If Bob teaches mathematics and Alice likes mathematics, then Alice likes Bob."

\* new ELLM(), and what ELLM.reset leaves
FreshSession ==
    [enc |-> NewEncoder, facts |-> <<>>, factEncodings |-> <<>>, rules |-> <<>>]

World == [session |-> Session, visited |-> visited, page |-> last]

\* ELLM.learn on a session value
learnOn(session, text) ==
    learnFrom(session,
              SelectSeq(splitSentences(text), LAMBDA x : Len(trim(x)) > 0), 1, <<>>)

\* ELLM.getKnowledgeSummary on a session value
knowledgeSummary(session) ==
    [facts |-> [i \in DOMAIN session.facts |-> toString(session.facts[i])],
     rules |-> [i \in DOMAIN session.rules |->
                   describeRule(session.enc, session.rules[i])]]

\* ELLM.query: the result object, with the encoder and the visited set after
queryOn(w, question) ==
    Bind(parseQuery(question), LAMBDA queryFact :
        IF queryFact # <<>>
        THEN Bind(deduce([facts |-> w.session.facts,
                          factEncodings |-> w.session.factEncodings,
                          rules |-> w.session.rules],
                         w.session.enc, queryFact[1]), LAMBDA result :
                 [query |-> question,
                  parsedQuery |-> <<toString(queryFact[1])>>,
                  answer |-> IF result.result THEN "Yes" ELSE "No",
                  explanation |-> result.explanation,
                  enc |-> result.enc, visited |-> result.visited])
        ELSE [query |-> question, parsedQuery |-> <<>>, answer |-> "Unknown",
              explanation |-> "Could not parse the query",
              enc |-> w.session.enc, visited |-> w.visited])

\* the em dash (U+2014) the handlers write for "nothing to show"; strings
\* here are ASCII
Dash == "-"

\* renderList: the items shown, or the muted empty label
renderList(items, emptyLabel) ==
    IF Len(items) = 0
    THEN [muted |-> TRUE, items |-> <<emptyLabel>>]
    ELSE [muted |-> FALSE, items |-> items]

\* renderKnowledge
renderKnowledge(w) ==
    Bind(knowledgeSummary(w.session), LAMBDA snapshot :
        [w EXCEPT !.page.factsList = renderList(snapshot.facts, "No facts learned yet."),
                  !.page.rulesList = renderList(snapshot.rules, "No rules learned yet.")])

\* renderLearnResults
renderLearnResults(w, results) ==
    [w EXCEPT !.page.learnLog =
        IF Len(results) = 0 THEN <<"Enter facts or rules for ELLM to learn.">>
        ELSE results]

\* learnFromText
learnFromText(w) ==
    Bind(trim(w.page.knowledgeInput), LAMBDA text :
        IF text = ""
        THEN renderLearnResults(w, <<"Please enter at least one fact or rule.">>)
        ELSE Bind(learnOn(w.session, text), LAMBDA r :
                 renderKnowledge(renderLearnResults([w EXCEPT !.session = r.session],
                                                    r.learningResults))))

\* askQuestion
askQuestion(w) ==
    Bind(trim(w.page.queryInput), LAMBDA question :
        IF question = ""
        THEN [w EXCEPT !.page.answer = Dash,
                       !.page.parsed = "Please provide a question.",
                       !.page.explanation = "Type a question like 'Is Socrates mortal?'"]
        ELSE Bind(queryOn(w, question), LAMBDA result :
                 [w EXCEPT !.session.enc = result.enc,
                           !.visited = result.visited,
                           !.page.answer = result.answer,
                           !.page.parsed = IF result.parsedQuery # <<>>
                                           THEN result.parsedQuery[1]
                                           ELSE "Could not parse",
                           !.page.explanation = result.explanation]))

\* a slip: the workspace is cleared but the engine is not reset
resetWorkspaceKeepsEngine(w) ==
    renderKnowledge(renderLearnResults(
        [w EXCEPT !.page.knowledgeInput = "",
                  !.page.queryInput = "",
                  !.page.answer = Dash,
                  !.page.parsed = Dash,
                  !.page.explanation =
                      "Teach ELLM and ask something to see the reasoning steps."],
        <<>>))

\* resetWorkspace
resetWorkspace(w) ==
    renderKnowledge(renderLearnResults(
        [w EXCEPT !.session = FreshSession,
                  !.visited = {},
                  !.page.knowledgeInput = "",
                  !.page.queryInput = "",
                  !.page.answer = Dash,
                  !.page.parsed = Dash,
                  !.page.explanation =
                      "Teach ELLM and ask something to see the reasoning steps."],
        <<>>))

\* loadSample
loadSample(w) ==
    Bind(learnFromText([resetWorkspace(w) EXCEPT
                            !.page.knowledgeInput = sampleKnowledge]), LAMBDA learned :
        [learned EXCEPT !.page.queryInput = "Is Socrates mortal?"])

\* the page once the document is loaded: wireEvents, renderKnowledge and
\* renderLearnResults([]) on the elements as the markup leaves them
loadedPage(w) ==
    renderKnowledge(renderLearnResults(
        [w EXCEPT !.page = [op |-> "DOMContentLoaded",
                            knowledgeInput |-> "", queryInput |-> "",
                            learnLog |-> <<>>,
                            factsList |-> renderList(<<>>, ""),
                            rulesList |-> renderList(<<>>, ""),
                            answer |-> "", parsed |-> "", explanation |-> ""]],
        <<>>))

\* the world after a handler has run, with the event that ran it
Shown(w, event) ==
    /\ SetEncoder(w.session.enc)
    /\ facts' = w.session.facts
    /\ factEncodings' = w.session.factEncodings
    /\ rules' = w.session.rules
    /\ visited' = w.visited
    /\ last' = [w.page EXCEPT !.op = event]
    /\ UNCHANGED callVars

PageShown == last.op \notin {"none"}

MaxPageStored == 2

\* what the user types into the two inputs
TypedKnowledge == {"", "Socrates is Human. Xyzzy plugh!", "All b can c"}
TypedQueries == {"", "Can penguins fly?", "xyzzy"}

GLoaded == last.op = "none" /\ \E w \in {loadedPage(World)} : Shown(w, "DOMContentLoaded")

GTypeKnowledge ==
    /\ PageShown
    /\ \E text \in TypedKnowledge :
           Shown([World EXCEPT !.page.knowledgeInput = text], "input")

GTypeQuery ==
    /\ PageShown
    /\ \E question \in TypedQueries :
           Shown([World EXCEPT !.page.queryInput = question], "input")

GLearn ==
    /\ PageShown
    /\ Len(facts) + Len(rules) < MaxPageStored
    /\ \E w \in {learnFromText(World)} : Shown(w, "learnButton")

GAsk == PageShown /\ \E w \in {askQuestion(World)} : Shown(w, "askButton")

GReset == PageShown /\ \E w \in {resetWorkspace(World)} : Shown(w, "resetEllm")

GLoadSample == PageShown /\ \E w \in {loadSample(World)} : Shown(w, "loadSample")

NextPage ==
    GLoaded \/ GTypeKnowledge \/ GTypeQuery \/ GLearn \/ GAsk \/ GReset \/ GLoadSample

SpecPage == Init /\ [][NextPage]_vars

\* sentences a caller types: a fact, the three forms of rule, and two
\* sentences no pattern accepts
SampleSentences ==
    {"Socrates is Human", "All Human are mortal", "All b can c",
     "If a is b then a likes b", "Xyzzy plugh", "a is b is c"}

MaxSentences == 2

\* what ends a sentence in a text: any of . ! ? and the blanks after it
Terminators == <<"!  ", "? ", ".">>

RECURSIVE textOf(_, _)
\* the text a caller types for the sentences from the k-th on
textOf(sentences, k) ==
    IF k > Len(sentences) THEN ""
    ELSE sentences[k] \o Terminators[((k - 1) % 3) + 1] \o textOf(sentences, k + 1)

LearnInputs == UNION {[1..n -> SampleSentences] : n \in 1..MaxSentences}

\* a caller that may store one fact directly, then learns one text, then
\* starts over
LAddFact ==
    /\ last.op \in {"none", "reset"}
    /\ \E fact \in {Fact("plato", "is", "human"), Fact("b", "can", "c")} :
           addFact(fact)

LLearn ==
    /\ last.op # "learn"
    /\ \E sentences \in LearnInputs : learn(textOf(sentences, 1))

LReset == last.op = "learn" /\ reset

NextLearn == LAddFact \/ LLearn \/ LReset

SpecLearn == Init /\ [][NextLearn]_vars

\* a caller that builds its knowledge first and asks afterwards
Building == last.op # "deduce"

(***************************************************************************)
(* deduce step by step.  An invocation of deduce is a stack of _deduce     *)
(* frames; a frame holds the locals of one _deduce call and the place it   *)
(* has reached:                                                            *)
(*   "enter"          the head of _deduce, up to the direct-fact check     *)
(*   "universal"      the loop over universal and capability rules         *)
(*   "universalRet"   after the recursive call on membershipFact           *)
(*   "standard"       the loop over standard rules                         *)
(*   "condition"      the loop over the conditions of rule k               *)
(*   "conditionRet"   after the recursive call on conditionFact            *)
(*   "transitive"     the loop of tryTransitiveReasoning over kb.facts     *)
(*   "transitiveRet"  after the recursive call on intermediateFact         *)
(* The knowledge base, the encoder and this.visited are the engine's and   *)
(* are shared by all invocations; expanded records, for each invocation,   *)
(* the keys it passed through the cycle check, in order.                   *)
(***************************************************************************)
MaxDepth == 8

Frame(queryFact) ==
    [queryFact |-> queryFact, pc |-> "enter", queryEncoding |-> 0,
     k |-> 1, j |-> 1, explanations |-> <<>>]

Top(i) == stack[i][Len(stack[i])]

At(i, pc) == stack[i] # <<>> /\ Top(i).pc = pc

\* return { result, explanation } from the top frame
Return(i, result, explanation) ==
    /\ stack' = [stack EXCEPT ![i] = SubSeq(@, 1, Len(@) - 1)]
    /\ ret' = [ret EXCEPT ![i] = [result |-> result, explanation |-> explanation]]
    /\ outcome' = IF Len(stack[i]) = 1
                  THEN [outcome EXCEPT ![i] =
                           [op |-> "deduce", query |-> Top(i).queryFact,
                            result |-> result, explanation |-> explanation]]
                  ELSE outcome

\* go on in the top frame
Goto(i, frame) ==
    /\ stack' = [stack EXCEPT ![i][Len(stack[i])] = frame]
    /\ UNCHANGED <<ret, outcome>>

\* this._deduce(kb, queryFact, depth + 1) from the top frame
Call(i, frame, queryFact) ==
    /\ Len(stack[i]) < MaxDepth
    /\ stack' = [stack EXCEPT
                    ![i] = Append([@ EXCEPT ![Len(@)] = frame], Frame(queryFact))]
    /\ UNCHANGED <<ret, outcome>>

\* deduce(kb, queryFact): this.visited = new Set(), then the first _deduce
StartDeduce(i, queryFact) ==
    /\ stack[i] = <<>>
    /\ outcome[i] = NoCall
    /\ visited' = {}
    /\ stack' = [stack EXCEPT ![i] = <<Frame(queryFact)>>]
    /\ UNCHANGED <<conceptToPrime, primeToConceptCache, nextPrimeIndex, primeCache,
                   facts, factEncodings, rules, last, ret, outcome, expanded>>

\* the head of _deduce: encodeFact, the cycle check, visited.add, the
\* direct-fact check
Enter(i) ==
    /\ At(i, "enter")
    /\ \E q \in {encodeFact(Encoder, Top(i).queryFact)},
          queryKey \in {toString(Top(i).queryFact)} :
          /\ SetEncoder(q.enc)
          /\ IF queryKey \in visited
             THEN /\ Return(i, FALSE, "Circular reasoning detected: " \o queryKey)
                  /\ UNCHANGED <<visited, expanded>>
             ELSE /\ visited' = visitedAdd(visited, queryKey)
                  /\ expanded' = [expanded EXCEPT ![i] = Append(@, queryKey)]
                  /\ IF includes(factEncodings, q.value)
                     THEN Return(i, TRUE, "Direct fact in knowledge base: " \o queryKey)
                     ELSE Goto(i, [Top(i) EXCEPT !.pc = "universal",
                                                 !.queryEncoding = q.value, !.k = 1])
    /\ UNCHANGED <<facts, factEncodings, rules, last>>

\* what a step inside _deduce leaves alone
Inside ==
    UNCHANGED <<conceptToPrime, primeToConceptCache, nextPrimeIndex, primeCache,
                facts, factEncodings, rules, visited, last, expanded>>

\* one iteration of the first loop over kb.rules
UniversalLoop(i) ==
    /\ At(i, "universal")
    /\ \E f \in {Top(i)} :
          IF f.k > Len(rules)
          THEN Goto(i, [f EXCEPT !.pc = "standard", !.k = 1])
          ELSE IF ruleMatches(Encoder, rules[f.k], f.queryFact)
          THEN Call(i, [f EXCEPT !.pc = "universalRet"],
                    membershipFact(Encoder, rules[f.k], f.queryFact))
          ELSE Goto(i, [f EXCEPT !.k = @ + 1])
    /\ Inside

\* subResult is back
UniversalReturn(i) ==
    /\ At(i, "universalRet")
    /\ \E f \in {Top(i)} :
          IF ret[i].result
          THEN Return(i, TRUE, ruleExplanation(Encoder, rules[f.k], ret[i].explanation))
          ELSE Goto(i, [f EXCEPT !.pc = "universal", !.k = @ + 1])
    /\ Inside

\* one iteration of the second loop over kb.rules; past its end, the
\* transitive fallback or exhaustion
StandardLoop(i) ==
    /\ At(i, "standard")
    /\ \E f \in {Top(i)} :
          IF f.k > Len(rules)
          THEN IF f.queryFact.predicate \in {"is", "part of"}
               THEN Goto(i, [f EXCEPT !.pc = "transitive", !.k = 1])
               ELSE Return(i, FALSE, "Could not deduce: " \o toString(f.queryFact))
          ELSE IF /\ rules[f.k].type = "standard"
                  /\ rules[f.k].conclusionEncoding = f.queryEncoding
          THEN Goto(i, [f EXCEPT !.pc = "condition", !.j = 1, !.explanations = <<>>])
          ELSE Goto(i, [f EXCEPT !.k = @ + 1])
    /\ Inside

\* one iteration of the loop over rule.conditionEncodings; past its end,
\* allConditionsMet
ConditionLoop(i) ==
    /\ At(i, "condition")
    /\ \E f \in {Top(i)} :
          IF f.j > Len(rules[f.k].conditionEncodings)
          THEN Return(i, TRUE, join(f.explanations, ", ") \o ", which implies "
                                  \o toString(f.queryFact))
          ELSE \E conditionFact \in {decodeFact(Encoder, rules[f.k].conditionEncodings[f.j])} :
                  IF conditionFact = <<>>
                  THEN Goto(i, [f EXCEPT !.pc = "standard", !.k = @ + 1])
                  ELSE Call(i, [f EXCEPT !.pc = "conditionRet"], conditionFact[1])
    /\ Inside

\* conditionResult is back
ConditionReturn(i) ==
    /\ At(i, "conditionRet")
    /\ \E f \in {Top(i)} :
          IF ~ret[i].result
          THEN Goto(i, [f EXCEPT !.pc = "standard", !.k = @ + 1])
          ELSE Goto(i, [f EXCEPT !.pc = "condition", !.j = @ + 1,
                                 !.explanations = Append(@, ret[i].explanation)])
    /\ Inside

\* one iteration of the loop of tryTransitiveReasoning; past its end,
\* exhaustion
TransitiveLoop(i) ==
    /\ At(i, "transitive")
    /\ \E f \in {Top(i)} :
          IF f.k > Len(facts)
          THEN Return(i, FALSE, "Could not deduce: " \o toString(f.queryFact))
          ELSE IF /\ facts[f.k].subject = f.queryFact.subject
                  /\ facts[f.k].predicate = f.queryFact.predicate
          THEN Call(i, [f EXCEPT !.pc = "transitiveRet"],
                    Fact(facts[f.k].object, f.queryFact.predicate, f.queryFact.object))
          ELSE Goto(i, [f EXCEPT !.k = @ + 1])
    /\ Inside

\* result is back in tryTransitiveReasoning
TransitiveReturn(i) ==
    /\ At(i, "transitiveRet")
    /\ \E f \in {Top(i)} :
          IF ret[i].result
          THEN Return(i, TRUE, f.queryFact.subject \o " " \o f.queryFact.predicate \o " "
                                  \o facts[f.k].object \o ", and " \o ret[i].explanation)
          ELSE Goto(i, [f EXCEPT !.pc = "transitive", !.k = @ + 1])
    /\ Inside

\* the next step of invocation i
Step(i) ==
    \/ Enter(i)
    \/ UniversalLoop(i) \/ UniversalReturn(i)
    \/ StandardLoop(i) \/ ConditionLoop(i) \/ ConditionReturn(i)
    \/ TransitiveLoop(i) \/ TransitiveReturn(i)

\* no invocation has started
Idle == \A i \in Invocations : stack[i] = <<>> /\ outcome[i] = NoCall

(***************************************************************************)
(* SpecAlone: a knowledge base with cyclic facts, self-referential and     *)
(* mutually recursive rules is built, then one deduce runs on its own,     *)
(* step by step.                                                           *)
(***************************************************************************)
MaxAFacts == 2
MaxARules == 2

Goals == {Fact("a", "is", "b"), Fact("b", "is", "a"), Fact("a", "is", "c")}

AFacts == {Fact("a", "is", "b"), Fact("b", "is", "a")}

ARules ==
    {Rule(<<c>>, q) : c \in Goals, q \in Goals} \cup {createUniversalRule("b", "c")}

AAddFact == Idle /\ Len(facts) < MaxAFacts /\ \E f \in AFacts : addFact(f)

AAddRule == Idle /\ Len(rules) < MaxARules /\ \E r \in ARules : addRule(r)

AStart == Idle /\ \E q \in Goals : StartDeduce(1, q)

AStep == Step(1)

NextAlone == AAddFact \/ AAddRule \/ AStart \/ AStep

SpecAlone == Init /\ [][NextAlone]_vars /\ WF_vars(AStep)

(***************************************************************************)
(* SpecInterleaved: a knowledge base is built, then two invocations of     *)
(* deduce on the one engine take their steps in any order; the second      *)
(* starts once the first has.                                              *)
(***************************************************************************)
MaxIFacts == 1
MaxIRules == 1

IAddFact == Idle /\ Len(facts) < MaxIFacts /\ \E f \in AFacts : addFact(f)

IAddRule == Idle /\ Len(rules) < MaxIRules /\ \E r \in ARules : addRule(r)

IStartFirst == \E q \in Goals : StartDeduce(1, q)

IStartSecond ==
    /\ stack[1] # <<>> \/ outcome[1] # NoCall
    /\ \E q \in Goals : StartDeduce(2, q)

IStep == \E i \in Invocations : Step(i)

NextInterleaved == IAddFact \/ IAddRule \/ IStartFirst \/ IStartSecond \/ IStep

SpecInterleaved == Init /\ [][NextInterleaved]_vars

(***************************************************************************)
(* Spec: a session in which facts, rules and queries come in any order.    *)
(***************************************************************************)
MaxFacts == 2
MaxRules == 2

SessionFacts == {Fact("a", "is", "b"), Fact("b", "is", "c")}

SessionRules ==
    {createUniversalRule("b", "c"),
     Rule(<<Fact("a", "is", "b")>>, Fact("a", "is", "c")),
     Rule(<<Fact("b", "is", "c"), Fact("a", "is", "a")>>, Fact("a", "is", "c"))}

SessionQueries == {Fact("a", "is", "c"), Fact("a", "is", "b"), Fact("d", "is", "a")}

AddFact == \E f \in SessionFacts : Len(facts) < MaxFacts /\ addFact(f)

AddRule == \E r \in SessionRules : Len(rules) < MaxRules /\ addRule(r)

Query == \E q \in SessionQueries : Deduce(q)

Next == AddFact \/ AddRule \/ Query

Spec == Init /\ [][Next]_vars

(***************************************************************************)
(* SpecReset: a session that is used, reset, and used again.               *)
(***************************************************************************)
MaxZFacts == 2
MaxZRules == 1

ZAddFact == Len(facts) < MaxZFacts /\ \E f \in SessionFacts : addFact(f)

ZAddRule == Len(rules) < MaxZRules /\ \E r \in SessionRules : addRule(r)

ZQuery == \E q \in SessionQueries : Deduce(q)

\* the caller resets a session it has used
ZReset == last.op \notin {"none", "reset"} /\ reset

NextReset == ZAddFact \/ ZAddRule \/ ZQuery \/ ZReset

SpecReset == Init /\ [][NextReset]_vars

(***************************************************************************)
(* SpecPrimes: calls on the encoder's PrimeCalculator.                     *)
(***************************************************************************)
MaxIndex == 172
MaxFactorized == 200

\* numbers with prime factors beyond the sieve
LargeNumbers == {1009, 2 * 1013, 997 * 1009, 1009 * 1009, 1009 * 1013, 6 * 1009 * 1013}

\* PrimeCalculator.getNthPrime, called from outside
getNthPrimeCall(k) ==
    \E t \in {getNthPrime(primeCache, k)} :
        /\ primeCache' = t.cache
        /\ last' = [op |-> "getNthPrime", k |-> k, returned |-> t.value]
        /\ UNCHANGED <<conceptToPrime, primeToConceptCache, nextPrimeIndex,
                       facts, factEncodings, rules, visited, callVars>>

\* PrimeCalculator.factorize, called from outside
factorizeCall(n) ==
    /\ last' = [op |-> "factorize", n |-> n, returned |-> factorize(n)]
    /\ UNCHANGED <<conceptToPrime, primeToConceptCache, nextPrimeIndex, primeCache,
                   facts, factEncodings, rules, visited, callVars>>

PNthPrime == \E k \in 0..MaxIndex : getNthPrimeCall(k)

PFactorize == \E n \in (2..MaxFactorized) \cup LargeNumbers : factorizeCall(n)

NextPrimes == PNthPrime \/ PFactorize

SpecPrimes == Init /\ [][NextPrimes]_vars

(***************************************************************************)
(* SpecFactorize: factorize step by step, on arguments of either sign.     *)
(* While a call runs, last holds its locals: factors, remaining and the    *)
(* index k of the prime p the for-loop has reached.  One step is one test  *)
(* of the while condition with what follows from it.                       *)
(***************************************************************************)
MaxMagnitude == 12
MaxPositive == 40
MaxPushed == 6

\* the JavaScript % on integers: the sign of the result is the dividend's
remainder(a, p) == IF a >= 0 THEN a % p ELSE 0 - ((0 - a) % p)

\* the JavaScript / on integers where p divides a
quotient(a, p) == IF a >= 0 THEN a \div p ELSE 0 - ((0 - a) \div p)

\* const factors = []; let remaining = n; for (const p of this.primes)
factorizeStart(n) ==
    /\ last.op # "factorizing"
    /\ last' = [op |-> "factorizing", n |-> n, factors |-> <<>>,
                remaining |-> n, k |-> 1]
    /\ UNCHANGED <<conceptToPrime, primeToConceptCache, nextPrimeIndex, primeCache,
                   facts, factEncodings, rules, visited, callVars>>

\* if (remaining > 1) factors.push(remaining); return factors
factorizeReturn ==
    last' = [op |-> "factorize", n |-> last.n,
             returned |-> IF last.remaining > 1
                          THEN Append(last.factors, last.remaining)
                          ELSE last.factors]

\* the while test on the prime of index k: a push, or the two break tests
\* and the next prime.  The array of a loop that never ends grows until the
\* engine gives up; the model follows it up to MaxPushed entries.
factorizeStep ==
    /\ last.op = "factorizing"
    /\ IF last.k > Len(primes) THEN factorizeReturn
       ELSE IF remainder(last.remaining, primes[last.k]) = 0
       THEN /\ Len(last.factors) < MaxPushed
            /\ last' = [last EXCEPT !.factors = Append(@, primes[last.k]),
                                    !.remaining = quotient(@, primes[last.k])]
       ELSE IF primes[last.k] * primes[last.k] > last.remaining
               \/ last.remaining = 1
       THEN factorizeReturn
       ELSE last' = [last EXCEPT !.k = @ + 1]
    /\ UNCHANGED <<conceptToPrime, primeToConceptCache, nextPrimeIndex, primeCache,
                   facts, factEncodings, rules, visited, callVars>>

FStart == \E n \in (0 - MaxMagnitude)..MaxPositive : factorizeStart(n)

NextFactorize == FStart \/ factorizeStep

\* a call runs to completion before anything else happens
SpecFactorize == Init /\ [][NextFactorize]_vars /\ WF_vars(factorizeStep)

(***************************************************************************)
(* The scenario specifications below build a store from a fresh session    *)
(* and then ask one question.  The engine compares concepts only for       *)
(* equality, so the letters stand for any concept strings.                 *)
(***************************************************************************)
Names == {"a", "b", "c"}
Distinct2 == {t \in Names \X Names : t[1] # t[2]}
Distinct3 == {t \in Names \X Names \X Names :
                 t[1] # t[2] /\ t[1] # t[3] /\ t[2] # t[3]}

(***************************************************************************)
(* SpecUniversal: "is" facts and universal rules.                          *)
(***************************************************************************)
MaxUFacts == 1
MaxURules == 1

UFacts == {Fact(t[1], "is", t[2]) : t \in Distinct2}

URules == {createUniversalRule(t[1], t[2]) : t \in Distinct2}

UAddFact == \E f \in UFacts : Building /\ Len(facts) < MaxUFacts /\ addFact(f)

UAddRule == \E r \in URules : Building /\ Len(rules) < MaxURules /\ addRule(r)

UQuery == \E q \in UFacts : Building /\ Deduce(q)

NextUniversal == UAddFact \/ UAddRule \/ UQuery

SpecUniversal == Init /\ [][NextUniversal]_vars

(***************************************************************************)
(* SpecCapability: a subject "a" with "is" and "cannot" facts, and         *)
(* capability rules.  The triples (a, c, k) below show every pattern of    *)
(* equal and different concepts among subject, category and capability.    *)
(***************************************************************************)
MaxCFacts == 2
MaxCRules == 1

CTriples == {<<"a", "a", "a">>, <<"a", "a", "b">>, <<"a", "b", "a">>,
             <<"a", "b", "b">>, <<"a", "b", "c">>}

CFacts ==
    {Fact(t[1], "is", t[2]) : t \in CTriples}
      \cup {Fact(t[1], "cannot", t[3]) : t \in CTriples}

CRules == {createCapabilityRule(t[2], t[3]) : t \in CTriples}

CQueries == {Fact(t[1], "can", t[3]) : t \in CTriples}

CAddFact == \E f \in CFacts : Building /\ Len(facts) < MaxCFacts /\ addFact(f)

CAddRule == \E r \in CRules : Building /\ Len(rules) < MaxCRules /\ addRule(r)

CQuery == \E q \in CQueries : Building /\ Deduce(q)

NextCapability == CAddFact \/ CAddRule \/ CQuery

SpecCapability == Init /\ [][NextCapability]_vars

(***************************************************************************)
(* SpecOrder: a subject "s" with membership facts, several universal and   *)
(* capability rules for the one property "p", and a standard rule of two   *)
(* conditions that concludes a membership.                                 *)
(***************************************************************************)
MaxOFacts == 2
MaxORules == 3

OFacts == {Fact("s", "is", "c1"), Fact("s", "is", "c2")}

ORules ==
    {createUniversalRule("c1", "p"),
     createUniversalRule("c2", "p"),
     createCapabilityRule("c2", "p"),
     Rule(<<Fact("s", "is", "c2"), Fact("s", "is", "z")>>, Fact("s", "is", "c1"))}

OQueries == {Fact("s", "is", "p"), Fact("s", "can", "p")}

OAddFact == \E f \in OFacts : Building /\ Len(facts) < MaxOFacts /\ addFact(f)

OAddRule == \E r \in ORules : Building /\ Len(rules) < MaxORules /\ addRule(r)

OQuery == \E q \in OQueries : Building /\ Deduce(q)

NextOrder == OAddFact \/ OAddRule \/ OQuery

SpecOrder == Init /\ [][NextOrder]_vars

(***************************************************************************)
(* SpecEncoder: one encoder, asked for the primes of ever more concepts.   *)
(* The i-th new concept is named "c<i>": which strings the caller uses     *)
(* makes no difference to the encoder, only their order of first request.  *)
(***************************************************************************)
MaxConcepts == 170

ConceptName(i) == "c" \o ToString(i)

\* ConceptEncoder.getPrime, called from outside
primeOf(concept) ==
    \E t \in {getPrime(Encoder, concept)} :
        /\ SetEncoder(t.enc)
        /\ last' = [op |-> "getPrime", concept |-> toLowerCase(concept),
                    returned |-> t.value]
        /\ UNCHANGED <<facts, factEncodings, rules, visited, callVars>>

\* ConceptEncoder.encodeFact, called from outside
encodeFactCall(fact) ==
    \E t \in {encodeFact(Encoder, fact)} :
        /\ SetEncoder(t.enc)
        /\ last' = [op |-> "encodeFact", fact |-> fact, returned |-> t.value]
        /\ UNCHANGED <<facts, factEncodings, rules, visited, callVars>>

\* ConceptEncoder.decodeFact, called with the encoding the encodeFact call
\* before it returned
decodeFactCall ==
    /\ last.op = "encodeFact"
    /\ last' = [op |-> "decodeFact", fact |-> last.fact,
                returned |-> decodeFact(Encoder, last.returned)]
    /\ UNCHANGED <<conceptToPrime, primeToConceptCache, nextPrimeIndex, primeCache,
                   facts, factEncodings, rules, visited, callVars>>

\* a known concept, or the next new one
EPrimeOf ==
    \E i \in 1..MaxConcepts : i <= nextPrimeIndex /\ primeOf(ConceptName(i))

\* a fact of three new concepts
EEncodeFact ==
    /\ nextPrimeIndex + 2 <= MaxConcepts
    /\ encodeFactCall(Fact(ConceptName(nextPrimeIndex),
                           ConceptName(nextPrimeIndex + 1),
                           ConceptName(nextPrimeIndex + 2)))

NextEncoder == EPrimeOf \/ EEncodeFact

SpecEncoder == Init /\ [][NextEncoder]_vars

(***************************************************************************)
(* SpecSummary: a session that has seen many concepts stores rules and     *)
(* lists its knowledge.  "y", "z" and "is" are first met in the rules.      *)
(***************************************************************************)
MaxRegistered == 167
MaxSRules == 2

SummaryRules ==
    {createUniversalRule("c1", "c2"),
     Rule(<<Fact("c1", "is", "c2")>>, Fact("c2", "is", "c1")),
     Rule(<<Fact("y", "is", "z")>>, Fact("c1", "is", "c2")),
     Rule(<<Fact("c1", "is", "c2"), Fact("y", "is", "z")>>, Fact("c2", "is", "c1")),
     Rule(<<Fact("c1", "is", "c2")>>, Fact("y", "is", "z"))}

\* the next new concept
SRegister ==
    /\ nextPrimeIndex <= MaxRegistered
    /\ primeOf(ConceptName(nextPrimeIndex))

SAddRule ==
    /\ nextPrimeIndex > MaxRegistered
    /\ Len(rules) < MaxSRules
    /\ \E rule \in SummaryRules : addRule(rule)

SSummary == Len(rules) > 0 /\ getKnowledgeSummary

SPrint == Len(rules) > 0 /\ printKnowledgeBase

NextSummary == SRegister \/ SAddRule \/ SSummary \/ SPrint

SpecSummary == Init /\ [][NextSummary]_vars

(***************************************************************************)
(* SpecRoundTrip: concepts registered in any order, then a fact of three   *)
(* distinct concepts encoded and the encoding decoded.                     *)
(***************************************************************************)
RTNames == {"Socrates", "is", "Human", "mortal"}

RTFacts == {Fact(t[1], t[2], t[3]) :
               t \in {u \in RTNames \X RTNames \X RTNames :
                         u[1] # u[2] /\ u[1] # u[3] /\ u[2] # u[3]}}

RTPrimeOf == \E c \in RTNames : last.op \in {"none", "getPrime"} /\ primeOf(c)

RTEncodeFact == \E f \in RTFacts : encodeFactCall(f)

RTDecodeFact == decodeFactCall

NextRoundTrip == RTPrimeOf \/ RTEncodeFact \/ RTDecodeFact

SpecRoundTrip == Init /\ [][NextRoundTrip]_vars

(***************************************************************************)
(* SpecRules: stores of facts and standard rules, built from a fresh       *)
(* session and then queried.                                               *)
(***************************************************************************)
MaxRFacts == 1
MaxRRules == 2

RFacts == {Fact("a", "likes", "b"), Fact("b", "is", "a"), Fact("a", "is", "a")}

RRules ==
    {Rule(<<f>>, g) : f \in RFacts, g \in RFacts}
      \cup {Rule(<<f, g>>, Fact("a", "likes", "b")) : f \in RFacts, g \in RFacts}

RAddFact == \E f \in RFacts : Building /\ Len(facts) < MaxRFacts /\ addFact(f)

RAddRule == \E r \in RRules : Building /\ Len(rules) < MaxRRules /\ addRule(r)

RQuery == \E q \in RFacts : Building /\ Deduce(q)

NextRules == RAddFact \/ RAddRule \/ RQuery

SpecRules == Init /\ [][NextRules]_vars

(***************************************************************************)
(* SpecChain: stores of facts only, all "is" or all "part of", built from  *)
(* a fresh session and then queried.                                       *)
(***************************************************************************)
MaxChainFacts == 3

Transitive == {"is", "part of"}

ChainFacts == {Fact(x, p, y) : x \in Names, p \in Transitive, y \in Names}

TAddFact ==
    \E f \in ChainFacts :
        /\ Building
        /\ Len(facts) < MaxChainFacts
        /\ \A i \in DOMAIN facts : facts[i].predicate = f.predicate
        /\ addFact(f)

TQuery == \E q \in ChainFacts : Building /\ Deduce(q)

NextChain == TAddFact \/ TQuery

SpecChain == Init /\ [][NextChain]_vars

(***************************************************************************)
(* Reading the store: the rule an encoded rule stands for                  *)
(***************************************************************************)
IsQuantified(rule, type, category, property) ==
    /\ rule.type = type
    /\ getConceptName(Encoder, rule.categoryPrime) = category
    /\ getConceptName(Encoder, rule.propertyPrime) = property

Deduced(q) == last.op = "deduce" /\ last.query = q

\* C6: for all distinct s, c, p, with the fact (s is c) and the rule
\* "all c are p" as the whole store, deduce((s is p)) returns true with the
\* explanation "Direct fact in knowledge base: s is c, and all c are p".
C6_UniversalRule ==
    \A t \in Distinct3 :
        LET s == t[1]  c == t[2]  p == t[3]
        IN  (/\ facts = <<Fact(s, "is", c)>>
             /\ Len(rules) = 1
             /\ IsQuantified(rules[1], "universal", c, p)
             /\ Deduced(Fact(s, "is", p)))
            => /\ last.result = TRUE
               /\ last.explanation =
                      "Direct fact in knowledge base: " \o s \o " is " \o c
                        \o ", and all " \o c \o " are " \o p

C6_Witness ==
    /\ facts = <<Fact("a", "is", "b")>>
    /\ Len(rules) = 1
    /\ IsQuantified(rules[1], "universal", "b", "c")
    /\ Deduced(Fact("a", "is", "c"))
    /\ last.explanation =
           "Direct fact in knowledge base: a is b, and all b are c"

\* C9: for all s, c, k, with the facts (s is c) and (s cannot k) and the
\* rule "all c can k" as the whole store, deduce((s can k)) returns true
\* through the capability rule: the "cannot" fact does not suppress it.
C9_CannotDoesNotSuppress ==
    \A t \in CTriples :
        LET s == t[1]  c == t[2]  k == t[3]
        IN
        (/\ Len(facts) = 2
         /\ {facts[1], facts[2]} = {Fact(s, "is", c), Fact(s, "cannot", k)}
         /\ Len(rules) = 1
         /\ IsQuantified(rules[1], "capability", c, k)
         /\ Deduced(Fact(s, "can", k)))
        => /\ last.result = TRUE
           /\ last.explanation =
                  "Direct fact in knowledge base: " \o s \o " is " \o c
                    \o ", and all " \o c \o " can " \o k

C9_Witness ==
    /\ facts = <<Fact("a", "is", "b"), Fact("a", "cannot", "c")>>
    /\ Len(rules) = 1
    /\ IsQuantified(rules[1], "capability", "b", "c")
    /\ Deduced(Fact("a", "can", "c"))
    /\ last.result = TRUE

\* C10: a deduce call leaves the fact sequence, the rule sequence, both
\* encoder tables and the next-prime index unchanged, for every query.
C10_DeduceIsPure ==
    [][Query => UNCHANGED <<facts, rules, conceptToPrime,
                            primeToConceptCache, nextPrimeIndex>>]_vars

Stored(fact) == \E i \in DOMAIN facts : facts[i] = fact

\* the encodings of a standard rule with these conditions and this conclusion
IsStandard(rule, conds, conclusion) ==
    /\ rule.type = "standard"
    /\ rule.conditionEncodings =
           [i \in DOMAIN conds |-> encodeFact(Encoder, conds[i]).value]
    /\ rule.conclusionEncoding = encodeFact(Encoder, conclusion).value

\* C1: any two distinct concepts of the concept table hold different primes.
C1_Injective ==
    \A c1 \in DOMAIN conceptToPrime, c2 \in DOMAIN conceptToPrime :
        c1 # c2 => conceptToPrime[c1] # conceptToPrime[c2]

\* C2: for every fact f of three distinct concepts, whatever the order in
\* which they were first registered, decodeFact(encodeFact(f)) is f.
C2_RoundTrip ==
    last.op = "decodeFact" => last.returned = <<last.fact>>

\* C3 as stated: with a standard rule "IF f THEN f" as the whole store,
\* deduce(f) returns false with "Circular reasoning detected: f".
C3_CircularExplanation ==
    \A f \in RFacts :
        (/\ facts = <<>>
         /\ Len(rules) = 1
         /\ IsStandard(rules[1], <<f>>, f)
         /\ Deduced(f))
        => /\ last.result = FALSE
           /\ last.explanation = "Circular reasoning detected: " \o toString(f)

\* C3 as amended: with a standard rule "IF f THEN f" as the whole store,
\* deduce(f) returns false with "Could not deduce: f" (the cycle guard stops
\* the inner goal, the rule fails, and the call ends by exhaustion).
C3_SelfRuleFails ==
    \A f \in RFacts :
        (/\ facts = <<>>
         /\ Len(rules) = 1
         /\ IsStandard(rules[1], <<f>>, f)
         /\ Deduced(f))
        => /\ last.result = FALSE
           /\ last.explanation = "Could not deduce: " \o toString(f)
           /\ toString(f) \in visited

C3_Witness ==
    /\ facts = <<>>
    /\ Len(rules) = 1
    /\ IsStandard(rules[1], <<Fact("b", "is", "a")>>, Fact("b", "is", "a"))
    /\ Deduced(Fact("b", "is", "a"))
    /\ last.result = FALSE

\* C7: if a stored standard rule concludes q and all its conditions are
\* stored facts, deduce(q) returns true, whatever other rules are stored.
C7_SatisfiedRuleSucceeds ==
    \A k \in DOMAIN rules :
        (/\ last.op = "deduce"
         /\ rules[k].type = "standard"
         /\ rules[k].conclusionEncoding = encodeFact(Encoder, last.query).value
         /\ \A j \in DOMAIN rules[k].conditionEncodings :
                includes(factEncodings, rules[k].conditionEncodings[j]))
        => last.result = TRUE

\* the explanation of a two-hop chain x0 p x1, x1 p x2
ChainExplanation(p, x0, x1, x2) ==
    x0 \o " " \o p \o " " \o x1
       \o ", and Direct fact in knowledge base: "
       \o x1 \o " " \o p \o " " \o x2

\* the store holds exactly the two facts x0 p x1 and x1 p x2
ChainOfTwo(p, x0, x1, x2) ==
    /\ rules = <<>>
    /\ Len(facts) = 2
    /\ {facts[1], facts[2]} = {Fact(x0, p, x1), Fact(x1, p, x2)}

\* in a store of facts only, every chain of two or three stored facts with
\* predicate p makes deduce((x0 p xn)) true
ChainsDeduced ==
    \A p \in Transitive, x0 \in Names, x1 \in Names, x2 \in Names :
        /\ (/\ rules = <<>>
            /\ Stored(Fact(x0, p, x1)) /\ Stored(Fact(x1, p, x2))
            /\ Deduced(Fact(x0, p, x2)))
           => last.result = TRUE
        /\ \A x3 \in Names :
              (/\ rules = <<>>
               /\ Stored(Fact(x0, p, x1)) /\ Stored(Fact(x1, p, x2))
               /\ Stored(Fact(x2, p, x3))
               /\ Deduced(Fact(x0, p, x3)))
              => last.result = TRUE

\* C8 as stated: in a store of facts only, a chain x0 p x1, x1 p x2, ...
\* with p "is" or "part of" makes deduce((x0 p xn)) true, whatever else is
\* stored; for every chain of two facts as the whole store the explanation
\* is "x0 p x1, and Direct fact in knowledge base: x1 p x2".
C8_ChainAsStated ==
    /\ ChainsDeduced
    /\ \A p \in Transitive, x0 \in Names, x1 \in Names, x2 \in Names :
          (ChainOfTwo(p, x0, x1, x2) /\ Deduced(Fact(x0, p, x2)))
          => last.explanation = ChainExplanation(p, x0, x1, x2)

\* C8 as amended: in a store of facts only, a chain x0 p x1, x1 p x2, ...
\* with p "is" or "part of" makes deduce((x0 p xn)) true, whatever else is
\* stored; for a chain of two facts as the whole store whose hops both
\* change the concept (x0 # x1 and x1 # x2) the explanation is
\* "x0 p x1, and Direct fact in knowledge base: x1 p x2", and when a hop
\* stays in place the query is itself stored and the explanation is
\* "Direct fact in knowledge base: x0 p x2".
C8_Chain ==
    /\ ChainsDeduced
    /\ \A p \in Transitive, x0 \in Names, x1 \in Names, x2 \in Names :
          (ChainOfTwo(p, x0, x1, x2) /\ Deduced(Fact(x0, p, x2)))
          => last.explanation =
                 IF x0 # x1 /\ x1 # x2
                 THEN ChainExplanation(p, x0, x1, x2)
                 ELSE "Direct fact in knowledge base: "
                          \o x0 \o " " \o p \o " " \o x2

C8_Witness ==
    /\ ChainOfTwo("part of", "a", "b", "c")
    /\ Deduced(Fact("a", "part of", "c"))
    /\ last.result = TRUE
    /\ last.explanation = ChainExplanation("part of", "a", "b", "c")

\* no key occurs twice in a sequence of keys
NoRepeat(keys) ==
    \A m \in DOMAIN keys, n \in DOMAIN keys : m # n => keys[m] # keys[n]

\* C4: a deduce call run on its own terminates on every store (cyclic
\* facts, self-referential and mutually recursive rules included): while it
\* runs the visited set only grows, no goal key is expanded twice, and the
\* call returns.
C4_Terminates ==
    /\ [](NoRepeat(expanded[1]))
    /\ [][stack[1] # <<>> => visited \subseteq visited']_vars
    /\ (stack[1] # <<>>) ~> (outcome[1] # NoCall)

C4_Witness ==
    /\ facts = <<Fact("a", "is", "b"), Fact("b", "is", "a")>>
    /\ Len(rules) = 2
    /\ IsStandard(rules[1], <<Fact("a", "is", "c")>>, Fact("a", "is", "c"))
    /\ IsStandard(rules[2], <<Fact("a", "is", "c")>>, Fact("a", "is", "c"))
    /\ outcome[1] = [op |-> "deduce", query |-> Fact("a", "is", "c"),
                     result |-> FALSE, explanation |-> "Could not deduce: a is c"]
    /\ expanded[1] = <<"a is c", "b is c">>

\* C5: an invocation of deduce that has returned, returned the result and
\* the explanation that deduce gives when it runs alone on the same store,
\* whatever steps of another invocation ran in between.
C5_Isolated ==
    \A i \in Invocations :
        outcome[i] # NoCall =>
            \E alone \in {deduce(KB, Encoder, outcome[i].query)} :
                /\ outcome[i].result = alone.result
                /\ outcome[i].explanation = alone.explanation

\* seq is an initial part of seq2
IsPrefix(seq, seq2) ==
    /\ Len(seq) <= Len(seq2)
    /\ \A i \in DOMAIN seq : seq2[i] = seq[i]

\* C11: the store is append-only: no call changes or moves an earlier fact,
\* encoding or rule; addFact(f) appends exactly one entry, also when an
\* equal fact is stored, and returns encodeFact(f); the fact list and the
\* encoding list have the same length and the i-th encoding is the encoding
\* of the i-th fact.
C11_AppendOnly ==
    /\ [](/\ Len(facts) = Len(factEncodings)
          /\ \A i \in DOMAIN facts :
                factEncodings[i] = encodeFact(Encoder, facts[i]).value)
    /\ [][/\ IsPrefix(facts, facts')
          /\ IsPrefix(factEncodings, factEncodings')
          /\ IsPrefix(rules, rules')
          /\ last'.op = "addFact" =>
                /\ facts' = Append(facts, last'.fact)
                /\ rules' = rules
                /\ last'.returned = encodeFact(Encoder', last'.fact).value
                /\ factEncodings' = Append(factEncodings, last'.returned)
          /\ last'.op = "addRule" =>
                /\ facts' = facts
                /\ rules' = Append(rules, last'.returned)
          /\ last'.op = "deduce" => facts' = facts /\ rules' = rules]_vars

C11_Witness ==
    /\ facts = <<Fact("a", "is", "b"), Fact("a", "is", "b")>>
    /\ Len(rules) = 1
    /\ last.op = "addFact"

\* the knowledge base of a new session
EmptyKB == [facts |-> <<>>, factEncodings |-> <<>>, rules |-> <<>>]

\* C12: after reset the session is a new one: the store is empty, the
\* concept table holds only "_variable_" (prime 2, index 0 used), and the
\* next call returns what it returns on a newly constructed session.
C12_ResetIsFresh ==
    /\ [](last.op = "reset" =>
            /\ facts = <<>> /\ factEncodings = <<>> /\ rules = <<>>
            /\ conceptToPrime = [c \in {"_variable_"} |-> 2]
            /\ primeToConceptCache = [p \in {2} |-> "_variable_"]
            /\ nextPrimeIndex = 1
            /\ primeCache = {}
            /\ visited = {})
    /\ [][last.op = "reset" =>
            /\ last'.op = "addFact" =>
                  last'.returned = encodeFact(NewEncoder, last'.fact).value
            /\ last'.op = "addRule" =>
                  last'.returned = encodeRule(NewEncoder, last'.rule).value
            /\ last'.op = "deduce" =>
                  \E fresh \in {deduce(EmptyKB, NewEncoder, last'.query)} :
                      /\ last'.result = fresh.result
                      /\ last'.explanation = fresh.explanation]_vars

C12_Witness ==
    /\ last.op = "reset"
    /\ facts = <<>>
    /\ nextPrimeIndex = 1

\* the primes up to 1100, by definition, and the k-th of them (0-indexed)
PrimeNumbers == {p \in 2..1100 : \A d \in 2..(p - 1) : p % d # 0}

KthPrime ==
    [k \in 0..(Cardinality(PrimeNumbers) - 1) |->
        CHOOSE p \in PrimeNumbers : Cardinality({q \in PrimeNumbers : q < p}) = k]

\* C13: "_variable_" holds the prime of index 0; the i-th concept first
\* requested after it holds the i-th prime (0-indexed); a request for a
\* known concept returns its prime and changes no mapping and no index.
C13_AssignmentOrder ==
    /\ [](/\ conceptToPrime["_variable_"] = KthPrime[0]
          /\ \A i \in 1..MaxConcepts :
                ConceptName(i) \in DOMAIN conceptToPrime
                    => conceptToPrime[ConceptName(i)] = KthPrime[i])
    /\ [][(last'.op = "getPrime" /\ last'.concept \in DOMAIN conceptToPrime)
             => /\ last'.returned = conceptToPrime[last'.concept]
                /\ UNCHANGED <<conceptToPrime, primeToConceptCache,
                               nextPrimeIndex>>]_vars

\* C14: getNthPrime(k) returns the k-th prime (0-indexed), inside the sieve
\* and beyond it.
C14_NthPrime ==
    last.op = "getNthPrime" => last.returned = KthPrime[last.k]

\* p is a prime number, by definition
IsPrimeNumber(p) == p >= 2 /\ \A d \in 2..(p - 1) : p % d # 0

RECURSIVE Product(_)
Product(seq) == IF seq = <<>> THEN 1 ELSE Head(seq) * Product(Tail(seq))

\* C15: for n >= 2, factorize(n) is an ascending sequence of primes whose
\* product is n, also when n has prime factors beyond the sieve.
C15_Factorize ==
    (last.op = "factorize" /\ last.n >= 2) =>
        /\ Product(last.returned) = last.n
        /\ \A i \in DOMAIN last.returned : IsPrimeNumber(last.returned[i])
        /\ \A i \in DOMAIN last.returned :
              i > 1 => last.returned[i - 1] <= last.returned[i]

\* what a reader of the sentence patterns expects of each sample sentence:
\* a rule pattern wins over a fact pattern
ExpectedKind(sentence) ==
    CASE sentence = "Socrates is Human"        -> "fact"
      [] sentence = "All Human are mortal"     -> "rule"
      [] sentence = "All b can c"              -> "rule"
      [] sentence = "If a is b then a likes b" -> "rule"
      [] sentence = "Xyzzy plugh"              -> "none"
      [] sentence = "a is b is c"              -> "none"

LinePrefix(kind) ==
    CASE kind = "fact" -> "Added fact: "
      [] kind = "rule" -> "Added rule: "
      [] kind = "none" -> "Failed to parse: "

\* the number of lines of a report that start with a prefix
CountLines(lines, prefix) ==
    Cardinality({i \in DOMAIN lines : startsWith(lines[i], prefix)})

\* the sentences of a learn call, recovered from its text
Learned(sentences) == last.op = "learn" /\ last.text = textOf(sentences, 1)

\* C16: learn returns one line per non-empty sentence, in order; a sentence
\* is tried as a rule before it is tried as a fact; every "Added rule" line
\* appends exactly one rule and every "Added fact" line exactly one fact; a
\* sentence that fails to parse leaves facts, rules and encoder as they were
C16_Learn ==
    /\ [](\A sentences \in LearnInputs :
            Learned(sentences) =>
                /\ Len(last.returned) = Len(sentences)
                /\ \A i \in DOMAIN sentences :
                       startsWith(last.returned[i],
                                  LinePrefix(ExpectedKind(sentences[i]))))
    /\ [][last'.op = "learn" =>
            /\ IsPrefix(facts, facts') /\ IsPrefix(rules, rules')
            /\ IsPrefix(factEncodings, factEncodings')
            /\ Len(facts') = Len(facts) + CountLines(last'.returned, "Added fact: ")
            /\ Len(factEncodings') = Len(facts')
            /\ Len(rules') = Len(rules) + CountLines(last'.returned, "Added rule: ")
            /\ CountLines(last'.returned, "Failed to parse: ") = Len(last'.returned)
                   => UNCHANGED <<facts, factEncodings, rules, conceptToPrime,
                                  primeToConceptCache, nextPrimeIndex, primeCache>>
            /\ \A c \in DOMAIN conceptToPrime' :
                   ~includesText(c, "xyzzy") /\ ~includesText(c, "plugh")]_vars

\* C16 witness: a text of a rule that also reads as a fact and of a sentence
\* no pattern accepts was learned after an earlier fact
C16_Witness ==
    /\ Learned(<<"All b can c", "Xyzzy plugh">>)
    /\ Len(last.returned) = 2
    /\ startsWith(last.returned[1], "Added rule: ")
    /\ startsWith(last.returned[2], "Failed to parse: ")
    /\ Len(facts) = 1 /\ Len(rules) = 1

\* C17: the line of a sentence that fails to parse quotes the case-folded
\* sentence, e.g. learn("Xyzzy plugh") yields Failed to parse: "xyzzy plugh"
C17_FailedLineCaseFolded ==
    \A sentences \in LearnInputs :
        Learned(sentences) =>
            \A i \in DOMAIN sentences :
                ExpectedKind(sentences[i]) = "none" =>
                    /\ i \in DOMAIN last.returned
                    /\ last.returned[i] =
                           "Failed to parse: \"" \o lowerCase(sentences[i]) \o "\""

\* what deduce(queryFact) would answer if it were called now
Answer(queryFact) ==
    Bind(deduce(KB, Encoder, queryFact), LAMBDA r : <<r.result, r.explanation>>)

\* C19: every top-level deduce starts from an empty visited set: a call of
\* deduce(q1) changes neither the result nor the explanation that deduce(q2)
\* returns on the same engine and the same store, for every q1 and q2
C19_SequentialCallsIndependent ==
    [][last'.op = "deduce" =>
           /\ rules' = rules /\ factEncodings' = factEncodings
           /\ \A q2 \in SessionQueries : Answer(q2)' = Answer(q2)]_vars

\* C19 witness: deduce((a is c)) answered true on an engine that had
\* answered deduce((d is a)) before and still holds the keys of a call
C19_Witness ==
    /\ Deduced(Fact("a", "is", "c")) /\ last.result = TRUE
    /\ "d" \in DOMAIN conceptToPrime
    /\ visited # {}
    /\ Len(rules) > 0

\* a stored standard rule of which a condition or the conclusion does not
\* factor into exactly three primes
Undecodable(rule) ==
    /\ rule.type = "standard"
    /\ \/ \E i \in DOMAIN rule.conditionEncodings :
              Len(factorize(rule.conditionEncodings[i])) # 3
       \/ Len(factorize(rule.conclusionEncoding)) # 3

\* C18: when decoding a condition or the conclusion of a stored standard
\* rule fails, the rule's description is the literal placeholder
\* "[Rule with unparseable structure]", in the summary and in the printed
\* listing, and every other rule is still listed
C18_Placeholder ==
    /\ last.op = "getKnowledgeSummary" =>
           /\ Len(last.returned.rules) = Len(rules)
           /\ \A i \in DOMAIN rules :
                  Undecodable(rules[i]) =>
                      last.returned.rules[i] = "[Rule with unparseable structure]"
    /\ last.op = "printKnowledgeBase" =>
           /\ Len(last.logged) = 3 + Len(facts) + Len(rules)
           /\ \A i \in DOMAIN rules :
                  Undecodable(rules[i]) =>
                      last.logged[3 + Len(facts) + i]
                          = "- [Rule with unparseable structure]"

\* a stored universal or capability rule whose predicate and property are
\* the predicate and the object of the query
Matches(rule, queryFact) ==
    /\ rule.type \in {"universal", "capability"}
    /\ queryFact.predicate = (IF rule.type = "universal" THEN "is" ELSE "can")
    /\ queryFact.object = getConceptName(Encoder, rule.propertyPrime)

\* the membership goal (subject, is, category) of a rule for a query
Membership(rule, queryFact) ==
    Fact(queryFact.subject, "is", getConceptName(Encoder, rule.categoryPrime))

\* the first stored rule, in storage order, that matches the query and
\* whose membership goal can be deduced; 0 if there is none
FirstSucceeding(queryFact) ==
    Bind({i \in DOMAIN rules :
             /\ Matches(rules[i], queryFact)
             /\ Answer(Membership(rules[i], queryFact))[1]}, LAMBDA S :
        IF S = {} THEN 0 ELSE CHOOSE i \in S : \A j \in S : i <= j)

\* C20: for a query that is not a stored fact, the first universal or
\* capability rule in storage order that matches the query and whose
\* membership goal succeeds determines the explanation; rules that do not
\* match or whose membership goal fails do not abort the search, so a
\* matching rule whose membership fact is stored yields the result true
C20_FirstSucceedingRuleWins ==
    (last.op = "deduce" /\ ~Stored(last.query)) =>
        /\ (\E i \in DOMAIN rules :
               /\ Matches(rules[i], last.query)
               /\ Stored(Membership(rules[i], last.query)))
               => last.result = TRUE
        /\ Bind(FirstSucceeding(last.query), LAMBDA i :
               i # 0 =>
                   /\ last.result = TRUE
                   /\ last.explanation =
                          Answer(Membership(rules[i], last.query))[2]
                            \o ", and all "
                            \o getConceptName(Encoder, rules[i].categoryPrime)
                            \o (IF rules[i].type = "universal" THEN " are " ELSE " can ")
                            \o getConceptName(Encoder, rules[i].propertyPrime))

\* C21: for every integer n <= 1 (0, 1 and the negative integers),
\* factorize(n) terminates and returns the empty sequence
C21_FactorizeEdge ==
    /\ []((last.op = "factorize" /\ last.n <= 1) => last.returned = <<>>)
    /\ (last.op = "factorizing" /\ last.n <= 1) ~> (last.op = "factorize")

\* C22: with facts only in the store, deduce(q) returns true with the
\* explanation "Direct fact in knowledge base: {q}" only if a Fact with the
\* subject, the predicate and the object of q was added; the same three
\* concepts in another order do not count
C22_DirectRespectsEquality ==
    (/\ last.op = "deduce"
     /\ Len(rules) = 0
     /\ last.result = TRUE
     /\ last.explanation = "Direct fact in knowledge base: " \o toString(last.query))
        => Stored(last.query)

\* C23: deduction is monotone in the knowledge: a query that deduce answers
\* with result true is still answered with result true after a further fact
\* or rule has been appended to the store
C23_Monotone ==
    [][last'.op \in {"addFact", "addRule"} =>
           \A q \in SessionQueries : Answer(q)[1] => Answer(q)'[1]]_vars

\* what learning the sample text once on a fresh session produces
SampleLearned == learnOn(FreshSession, sampleKnowledge).session

====
